---------------------------- MODULE Spec2Model ----------------------------
(***************************************************************************)
(* A model of the witchcraft-rust-logging workspace:                       *)
(*   - witchcraft-log: the one-shot logger installation, the max-level     *)
(*     gate and the log! call site (logger.rs, level.rs, macros.rs,        *)
(*     private.rs);                                                        *)
(*   - witchcraft-metrics: the MetricRegistry (registry.rs);               *)
(*   - witchcraft-log: the thread-local MDC, its snapshots, set, swap and  *)
(*     the Bind future (mdc.rs), Level parsing (level.rs), the bridge from *)
(*     the log crate (bridge.rs);                                          *)
(*   - witchcraft-metrics: MetricId, Counter, Histogram, Timer;            *)
(*   - witchcraft-env-logger: the Filter and the service.1 rendering.      *)
(* Each subsystem has its own specification over its own variables; the    *)
(* objects of the other subsystems are not created in its runs.            *)
(***************************************************************************)
EXTENDS Integers, Sequences, FiniteSets, TLC

VARIABLES
    LOGGER,                 \* logger.rs:50   static LOGGER: OnceLock<&'static dyn Log>
    MAX_LOG_LEVEL_FILTER,   \* logger.rs:90   static MAX_LOG_LEVEL_FILTER: AtomicUsize
    pc,                     \* per thread: the position inside the running call
    frame,                  \* per thread: the locals of the running call
    RECORDS,                \* test.rs:21     what the installed sinks have received
    okCalls,                \* history: the sinks passed to the set calls that returned Ok
    nSet,                   \* history: set_logger / set_boxed_logger calls started
    nErr,                   \* history: set calls that returned SetLoggerError
    nLog                    \* history: log call sites started

VARIABLES
    regMap,                 \* registry.rs:50  the Arc<HashMap<..>> inside MetricRegistry.metrics
    mapHeap,                \* the HashMap allocations the Arcs point to
    lockHolder,             \* registry.rs:50  the Mutex around the Arc: the set of its holders
    rpc,                    \* per thread: the position inside the running registry call
    rframe,                 \* per thread: the locals of the running registry call
    snapshots,              \* the live Metrics values returned by metrics()
    nextInst,               \* the identity the next constructed instrument gets
    nGet,                   \* history: instrument accesses started
    firstEntry,             \* history: per id, the first entry ever installed
    origEntry,              \* history: per id, the entry installed since the last removal
    lastRemove              \* the id and the return value of the latest remove call

VARIABLES
    snaps,                  \* mdc.rs:34-36, 236-239  the Snapshot values: each thread's MDC,
                            \* the snapshots callers hold, the `old` of the Scope guards
    slotKind,               \* what each local of the caller holds: a Snapshot or a Scope
    arcHeap,                \* mdc.rs:116-118  the HashMap allocations behind the Arcs
    expect,                 \* history: what each Snapshot holds by value
    lastScopeDrop           \* history: what the latest drop of a Scope guard did

VARIABLES
    binds,                  \* mdc.rs:286-291  the Bind futures: where each one is in its
                            \* poll or drop, with the history of what its inner future
                            \* should find in the MDC
    lastPoll                \* history: the poll or drop of a Bind that has just returned

VARIABLES
    counter,                \* counter.rs:19  struct Counter(AtomicI64): the value, as limbs
    counterLog,             \* history: the inc/dec/add/sub calls since the last clear()
    lastCount               \* what a count() that has just returned gave

VARIABLES
    fbuilder,               \* filter.rs:55-58  the Builder, and the Filter once built
    fquery,                 \* the latest Filter::enabled call and its result
    fmax                    \* the latest Filter::max_level call and its result

VARIABLES
    sinkHist                \* history: the direct calls on logger() and the flushes done

VARIABLES
    mids,                   \* metric_id.rs:21-24  the MetricId values callers build
    midReg,                 \* registry.rs:50  the entries of a registry keyed by MetricId
    midGot                  \* the instrument each caller got for its id

VARIABLES
    lastParse               \* level.rs:60-70, 153-163  the from_str call that has just returned

VARIABLES
    histogram,              \* histogram.rs:21-24  struct Histogram: the count and what the reservoir received
    hframe,                 \* per thread: where its update call is, and the value passed
    hCalls                  \* history: the update calls started and completed

VARIABLES
    timer,                  \* timer.rs:22-26  struct Timer: the meter's counts, what the reservoir received, the clock
    guards,                 \* timer.rs:115-118  the Time guards: live or dropped, and their start
    timerLog                \* history: the update calls and guard drops completed, and their durations

VARIABLES
    bridged                 \* bridge.rs:66-87  the latest foreign record and the Record handed to logger().log

VARIABLES
    svcMdc,                 \* mdc.rs:34-36  the logging thread's MDC, as from_record's mdc::snapshot() reads it
    svcOut                  \* service.rs:26-128  the Record passed to the latest from_record and what it returned

VARIABLES
    insMaps,                \* mdc.rs:116-118, 236-239  the entries of the thread's two MDC maps and of a Map a caller holds
    lastInsert              \* mdc.rs:174-180  the insert call that has just returned or panicked

VARIABLES
    ssMdc,                  \* mdc.rs:34-36  the thread's MDC, by value
    ssVar,                  \* the Snapshot variable s of the caller, by value
    lastSet                 \* mdc.rs:88-96  the set or swap call that has just returned

VARIABLES
    mnow,                   \* clock.rs:21-24  whole seconds between Meter.start_time and the clock's now
    meter,                  \* meter.rs:32-37  uncounted, last_tick, the Mutex and the State inside it
    mpc,                    \* per thread: the position inside the running Meter call
    mframe,                 \* per thread: the locals of the running Meter call
    meterLog                \* history: the marks completed and the roll-overs performed

VARIABLES
    outerCall               \* registry.rs:75  per thread, the *_with call whose factory is running a nested registry call

VARIABLES
    instVal                 \* counter.rs:19  per instrument, the value its updates have added up to

VARIABLES
    envLog                  \* history: whether set_max_level has been called, and the try_init calls started

logVars == <<LOGGER, MAX_LOG_LEVEL_FILTER, pc, frame, RECORDS, okCalls, nSet, nErr, nLog>>
regVars == <<regMap, mapHeap, lockHolder, rpc, rframe, snapshots, nextInst, nGet,
             firstEntry, origEntry, lastRemove>>

mdcVars == <<snaps, slotKind, arcHeap, expect, lastScopeDrop>>

bindVars == <<binds, lastPoll>>

\* The variables of the subsystems settled after the first three.
counterVars == <<counter, counterLog, lastCount>>

filterVars == <<fbuilder, fquery, fmax>>

sinkVars == <<sinkHist>>

midVars == <<mids, midReg, midGot>>

parseVars == <<lastParse>>

histVars == <<histogram, hframe, hCalls>>

timerVars == <<timer, guards, timerLog>>

bridgeVars == <<bridged>>

svcVars == <<svcMdc, svcOut>>

insVars == <<insMaps, lastInsert>>

ssVars == <<ssMdc, ssVar, lastSet>>

meterVars == <<mnow, meter, mpc, mframe, meterLog>>

cbVars == <<outerCall>>

shVars == <<instVal>>

envVars == <<envLog>>

moreVars == <<bindVars, counterVars, filterVars, sinkVars, midVars, parseVars, histVars, timerVars, bridgeVars, svcVars, insVars, ssVars, meterVars, cbVars, shVars, envVars>>

vars == <<logVars, regVars, mdcVars, moreVars>>

notLogVars == <<regVars, mdcVars, moreVars>>
notRegVars == <<logVars, mdcVars, moreVars>>
notMdcVars == <<logVars, regVars, moreVars>>
notBindVars == <<logVars, regVars, counterVars, filterVars, sinkVars, midVars, parseVars, histVars, timerVars, bridgeVars, svcVars, insVars, ssVars, meterVars, cbVars, shVars, envVars>>
notCounterVars == <<logVars, regVars, mdcVars, bindVars, filterVars, sinkVars, midVars, parseVars, histVars, timerVars, bridgeVars, svcVars, insVars, ssVars, meterVars, cbVars, shVars, envVars>>
notFilterVars == <<logVars, regVars, mdcVars, bindVars, counterVars, sinkVars, midVars, parseVars, histVars, timerVars, bridgeVars, svcVars, insVars, ssVars, meterVars, cbVars, shVars, envVars>>
notSinkVars == <<regVars, mdcVars, bindVars, counterVars, filterVars, midVars, parseVars, histVars, timerVars, bridgeVars, svcVars, insVars, ssVars, meterVars, cbVars, shVars, envVars>>
notEnvVars == <<logVars, regVars, mdcVars, bindVars, counterVars, filterVars, sinkVars, midVars, parseVars, histVars, timerVars, bridgeVars, svcVars, insVars, ssVars, meterVars, cbVars, shVars>>
notShVars == <<logVars, regVars, mdcVars, bindVars, counterVars, filterVars, sinkVars, midVars, parseVars, histVars, timerVars, bridgeVars, svcVars, insVars, ssVars, meterVars, cbVars, envVars>>
notCbVars == <<logVars, regVars, mdcVars, bindVars, counterVars, filterVars, sinkVars, midVars, parseVars, histVars, timerVars, bridgeVars, svcVars, insVars, ssVars, meterVars, shVars, envVars>>
notMeterVars == <<logVars, regVars, mdcVars, bindVars, counterVars, filterVars, sinkVars, midVars, parseVars, histVars, timerVars, bridgeVars, svcVars, insVars, ssVars, cbVars, shVars, envVars>>
notSsVars == <<logVars, regVars, mdcVars, bindVars, counterVars, filterVars, sinkVars, midVars, parseVars, histVars, timerVars, bridgeVars, svcVars, insVars, meterVars, cbVars, shVars, envVars>>
notInsVars == <<logVars, regVars, mdcVars, bindVars, counterVars, filterVars, sinkVars, midVars, parseVars, histVars, timerVars, bridgeVars, svcVars, ssVars, meterVars, cbVars, shVars, envVars>>
notSvcVars == <<logVars, regVars, mdcVars, bindVars, counterVars, filterVars, sinkVars, midVars, parseVars, histVars, timerVars, bridgeVars, insVars, ssVars, meterVars, cbVars, shVars, envVars>>
notBridgeVars == <<logVars, regVars, mdcVars, bindVars, counterVars, filterVars, sinkVars, midVars, parseVars, histVars, timerVars, svcVars, insVars, ssVars, meterVars, cbVars, shVars, envVars>>
notTimerVars == <<logVars, regVars, mdcVars, bindVars, counterVars, filterVars, sinkVars, midVars, parseVars, histVars, bridgeVars, svcVars, insVars, ssVars, meterVars, cbVars, shVars, envVars>>
notHistVars == <<logVars, regVars, mdcVars, bindVars, counterVars, filterVars, sinkVars, midVars, parseVars, timerVars, bridgeVars, svcVars, insVars, ssVars, meterVars, cbVars, shVars, envVars>>
notParseVars == <<logVars, regVars, mdcVars, bindVars, counterVars, filterVars, sinkVars, midVars, histVars, timerVars, bridgeVars, svcVars, insVars, ssVars, meterVars, cbVars, shVars, envVars>>
notMidVars == <<logVars, regVars, mdcVars, bindVars, counterVars, filterVars, sinkVars, parseVars, histVars, timerVars, bridgeVars, svcVars, insVars, ssVars, meterVars, cbVars, shVars, envVars>>

None == "None"

-----------------------------------------------------------------------------
(* Bounds of the model.                                                    *)

NThreads == 3
MaxSetCalls == 3
MaxLogCalls == 1
NEmitters == 1
NRegThreads == 2
MaxGets == 2
MaxAdds == 1
NLocals == 1
MaxPolls == 2
MaxCounterOps == 3
MaxDirectives == 2
MaxSinkCalls == 3
MaxTags == 2
MaxUpdates == 3
MaxTimerUpdates == 2
MaxClock == 2

Threads == 1..NThreads
\* The threads that run log call sites in the emission specification.
Emitters == 1..NEmitters
Sinks == {"sinkA", "sinkB"}
NopLogger == "NopLogger"

-----------------------------------------------------------------------------
(* level.rs: Level and LevelFilter and their discriminants.                *)

Level == {"Fatal", "Error", "Warn", "Info", "Debug", "Trace"}
LevelFilter == {"Off"} \cup Level

\* `*self as usize` of a Level: Fatal = 1, then one more per variant.
LevelAsUsize(l) ==
    CASE l = "Fatal" -> 1
      [] l = "Error" -> 2
      [] l = "Warn"  -> 3
      [] l = "Info"  -> 4
      [] l = "Debug" -> 5
      [] l = "Trace" -> 6

\* `*self as usize` of a LevelFilter: Off = 0, then one more per variant.
LevelFilterAsUsize(f) ==
    CASE f = "Off"   -> 0
      [] f = "Fatal" -> 1
      [] f = "Error" -> 2
      [] f = "Warn"  -> 3
      [] f = "Info"  -> 4
      [] f = "Debug" -> 5
      [] f = "Trace" -> 6

\* mem::transmute of the stored usize back into a LevelFilter.
LevelFilterFromUsize(n) == CHOOSE f \in LevelFilter : LevelFilterAsUsize(f) = n

LevelLeStrict(l, f) == LevelAsUsize(l) < LevelFilterAsUsize(f)

\* impl PartialOrd<LevelFilter> for Level :: le
LevelLe(l, f) == LevelAsUsize(l) <= LevelFilterAsUsize(f)

\* logger.rs: max_level()
max_level == LevelFilterFromUsize(MAX_LOG_LEVEL_FILTER)

-----------------------------------------------------------------------------
(* logger.rs: the one-shot cell and the accessor.                          *)

\* logger(): LOGGER.get().map_or(&NopLogger, |l| *l)
logger ==
    IF LOGGER.state = "complete" THEN LOGGER.value ELSE NopLogger

SetLoggerResultAlwaysOk(ran) == "Ok"

\* set_logger: LOGGER.set(logger).map_err(|_| SetLoggerError(())): Ok iff this
\* call's value was the one stored.
SetLoggerResult(ran) == IF ran THEN "Ok" ELSE "Err"

SetBoxedLoggerResultInverted(local) == IF local = None THEN "Err" ELSE "Ok"

\* set_boxed_logger: match logger { Some(_) => Err(..), None => Ok(()) }
SetBoxedLoggerResult(local) == IF local = None THEN "Ok" ELSE "Err"

\* OnceLock::get_or_init runs the closure only for the caller that finds the
\* cell incomplete; a caller that finds it running waits.
OnceCanInitialize(cell) == cell.state = "incomplete"

IdleFrame == [op |-> None]

\* A thread starts set_logger(s) or set_boxed_logger(s).
SetStart(t) ==
    /\ pc[t] = "idle"
    /\ nSet < MaxSetCalls
    /\ \E op \in {"set_logger", "set_boxed_logger"}, s \in Sinks :
          frame' = [frame EXCEPT ![t] =
                      [op |-> op, arg |-> s, local |-> s, ran |-> FALSE,
                       sawInstalled |-> LOGGER.state = "complete",
                       result |-> None]]
    /\ pc' = [pc EXCEPT ![t] = "once"]
    /\ nSet' = nSet + 1
    /\ UNCHANGED <<LOGGER, MAX_LOG_LEVEL_FILTER, RECORDS, okCalls, nErr, nLog>>
    /\ UNCHANGED notLogVars

\* LOGGER.set(..) / LOGGER.get_or_init(..): enter the cell.
OnceEnter(t) ==
    /\ pc[t] = "once"
    /\ \/ /\ OnceCanInitialize(LOGGER)
          \* the closure runs: logger.take().unwrap()
          /\ LOGGER' = [LOGGER EXCEPT !.state = "running"]
          /\ frame' = [frame EXCEPT ![t].ran = TRUE, ![t].local = None]
          /\ pc' = [pc EXCEPT ![t] = "store"]
       \/ /\ ~OnceCanInitialize(LOGGER)
          /\ LOGGER.state = "complete"
          /\ pc' = [pc EXCEPT ![t] = "return"]
          /\ UNCHANGED <<LOGGER, frame>>
    /\ UNCHANGED <<MAX_LOG_LEVEL_FILTER, RECORDS, okCalls, nSet, nErr, nLog>>
    /\ UNCHANGED notLogVars

\* The closure's value is published and the cell completes.
OnceStore(t) ==
    /\ pc[t] = "store"
    /\ LOGGER' = [state |-> "complete", value |-> frame[t].arg]
    /\ pc' = [pc EXCEPT ![t] = "return"]
    /\ UNCHANGED <<MAX_LOG_LEVEL_FILTER, frame, RECORDS, okCalls, nSet, nErr, nLog>>
    /\ UNCHANGED notLogVars

\* The call returns its Result.
SetReturn(t) ==
    /\ pc[t] = "return"
    /\ LET r == IF frame[t].op = "set_logger"
                THEN SetLoggerResult(frame[t].ran)
                ELSE SetBoxedLoggerResult(frame[t].local)
       IN /\ frame' = [frame EXCEPT ![t].result = r]
          /\ okCalls' = IF r = "Ok" THEN Append(okCalls, frame[t].arg) ELSE okCalls
          /\ nErr' = IF r = "Err" THEN nErr + 1 ELSE nErr
    /\ pc' = [pc EXCEPT ![t] = "returned"]
    /\ UNCHANGED <<LOGGER, MAX_LOG_LEVEL_FILTER, RECORDS, nSet, nLog>>
    /\ UNCHANGED notLogVars

\* The caller drops the result and goes on.
Finish(t) ==
    /\ pc[t] = "returned"
    /\ pc' = [pc EXCEPT ![t] = "idle"]
    /\ frame' = [frame EXCEPT ![t] = IdleFrame]
    /\ UNCHANGED <<LOGGER, MAX_LOG_LEVEL_FILTER, RECORDS, okCalls, nSet, nErr, nLog>>
    /\ UNCHANGED notLogVars

\* set_max_level(level), called by any thread: a relaxed store of the
\* discriminant.
SetMaxLevel ==
    /\ \E f \in LevelFilter :
          /\ MAX_LOG_LEVEL_FILTER' = LevelFilterAsUsize(f)
          /\ MAX_LOG_LEVEL_FILTER' # MAX_LOG_LEVEL_FILTER
    /\ UNCHANGED <<LOGGER, pc, frame, RECORDS, okCalls, nSet, nErr, nLog>>
    /\ UNCHANGED notLogVars

-----------------------------------------------------------------------------
(* macros.rs / private.rs: a log! call site.                               *)

ParamKinds == {"safe", "unsafe", "error"}

\* The call sites tried: the first arm (message only), and the second arm with
\* one block and with all three.
SiteShapes == {{}, {"safe"}, ParamKinds}

LogAfterGuardEager(ok) == "params"

\* `if level <= max_level() { private::log(..) }`: the arguments of the call
\* are inside the guarded block.
LogAfterGuard(ok) == IF ok THEN "params" ELSE "returned"

\* `let level = $lvl;` of a call site with the given parameter blocks.
LogStart(t) ==
    /\ pc[t] = "idle"
    /\ nLog < MaxLogCalls
    /\ \E l \in Level, shape \in SiteShapes :
          frame' = [frame EXCEPT ![t] =
                      [op |-> "log", level |-> l, shape |-> shape,
                       loaded |-> None, guard |-> "pending",
                       evaluated |-> {}, handed |-> 0]]
    /\ pc' = [pc EXCEPT ![t] = "guard"]
    /\ nLog' = nLog + 1
    /\ UNCHANGED <<LOGGER, MAX_LOG_LEVEL_FILTER, RECORDS, okCalls, nSet, nErr>>
    /\ UNCHANGED notLogVars

\* `if level <= $crate::max_level()`
LogGuard(t) ==
    /\ pc[t] = "guard"
    /\ LET f  == max_level
           ok == LevelLe(frame[t].level, f)
       IN /\ frame' = [frame EXCEPT ![t].loaded = f, ![t].guard = IF ok THEN "passed" ELSE "failed"]
          /\ pc' = [pc EXCEPT ![t] = LogAfterGuard(ok)]
    /\ UNCHANGED <<LOGGER, MAX_LOG_LEVEL_FILTER, RECORDS, okCalls, nSet, nErr, nLog>>
    /\ UNCHANGED notLogVars

\* The argument expressions &$safe_value, &$unsafe_value, &$error are evaluated.
LogParams(t) ==
    /\ pc[t] = "params"
    /\ frame' = [frame EXCEPT ![t].evaluated = frame[t].shape]
    /\ pc' = [pc EXCEPT ![t] = "call"]
    /\ UNCHANGED <<LOGGER, MAX_LOG_LEVEL_FILTER, RECORDS, okCalls, nSet, nErr, nLog>>
    /\ UNCHANGED notLogVars

\* private::log / log_minimal: crate::logger().log(&record). NopLogger::log
\* does nothing; an installed sink keeps the record.
LogCall(t) ==
    /\ pc[t] = "call"
    /\ frame' = [frame EXCEPT ![t].handed = frame[t].handed + 1]
    /\ RECORDS' = IF logger = NopLogger
                  THEN RECORDS
                  ELSE Append(RECORDS, [sink |-> logger, level |-> frame[t].level])
    /\ pc' = [pc EXCEPT ![t] = "returned"]
    /\ UNCHANGED <<LOGGER, MAX_LOG_LEVEL_FILTER, okCalls, nSet, nErr, nLog>>
    /\ UNCHANGED notLogVars

-----------------------------------------------------------------------------
(* registry.rs: MetricRegistry.                                            *)

RegThreads == 1..NRegThreads
MetricIds == {"a", "b"}

\* enum Metric { Counter, Meter, Gauge, Histogram, Timer }
Kinds == {"Counter", "Meter", "Gauge", "Histogram", "Timer"}

\* The accessors the threads call: counter_with, gauge and timer_with.
\* meter_with and histogram_with are counter_with with another variant.
RequestedKinds == {"Counter", "Gauge", "Timer"}

\* An entry of the map: the kind tag and the identity of the Arc'ed instrument.
NoEntry == [kind |-> "None", inst |-> 0]
Entry(k, i) == [kind |-> k, inst |-> i]
EmptyContent == [id \in MetricIds |-> NoEntry]

\* The variables in which callers keep the Metrics values metrics() returned.
Slots == {"exported"}

\* The map allocations: the registry's, and one more for the live snapshot.
Addrs == {"map0", "map1"}
NoSnapshot == [ptr |-> None, taken |-> EmptyContent]

\* The strong count of the Arc at address a: the registry's handle and the
\* handles held by Metrics values.
StrongCount(a) ==
    (IF regMap = a THEN 1 ELSE 0) + Cardinality({s \in Slots : snapshots[s].ptr = a})

\* The instruments' allocations: each factory call makes one.
InstIds == 1..MaxGets

ArcCloneOther(i) == (i % MaxGets) + 1

\* Metric::Counter(c) => c.clone() on an Arc<Counter>: the clone is a handle
\* on the same instrument. (#[derive(Clone)] on Metric clones the same Arcs
\* when make_mut copies a shared map: the copy's entries are the same
\* instruments.)
ArcClone(i) == i

IsUniqueAlways(a) == TRUE

\* Arc::make_mut mutates in place only when it holds the only handle.
IsUnique(a) == StrongCount(a) = 1

FreshAddr == CHOOSE a \in Addrs : StrongCount(a) = 0

\* Arc::make_mut(&mut *lock): the handle and the heap afterwards. A shared map
\* is cloned into a new allocation, which the registry then points to.
MakeMutPtr == IF IsUnique(regMap) THEN regMap ELSE FreshAddr
MakeMutHeap ==
    IF IsUnique(regMap) THEN mapHeap ELSE [mapHeap EXCEPT ![FreshAddr] = mapHeap[regMap]]

\* The registry's current contents.
RegContent == mapHeap[regMap]

EntryOutcomeAlwaysVacant(e, k) == "vacant"

EntryOutcomeReplaceOnMismatch(e, k) ==
    IF e = NoEntry \/ e.kind # k THEN "vacant" ELSE "hit"

\* match map.entry(id) { Occupied(e) => match e.get() { Metric::K(c) => c.clone(),
\* _ => panic!(..) }, Vacant(e) => .. }
EntryOutcome(e, k) ==
    IF e = NoEntry THEN "vacant"
    ELSE IF e.kind = k THEN "hit"
    ELSE "mismatch"

\* The text of the panic: "metric already registered as a non-<kind>: {:?}".
NonKindText(k) ==
    CASE k = "Counter"   -> "metric already registered as a non-counter"
      [] k = "Meter"     -> "metric already registered as a non-meter"
      [] k = "Gauge"     -> "metric already registered as a non-gauge"
      [] k = "Histogram" -> "metric already registered as a non-histogram"
      [] k = "Timer"     -> "metric already registered as a non-timer"

NoResult == [tag |-> "none", inst |-> 0, text |-> "", key |-> ""]
Returned(i) == [tag |-> "ret", inst |-> i, text |-> "", key |-> ""]
Panicked(k, id) == [tag |-> "panic", inst |-> 0, text |-> NonKindText(k), key |-> id]

RegIdleFrame == [op |-> None]

\* A thread calls counter_with / meter_with / gauge / histogram_with /
\* timer_with (or the forms with the default factory) and reaches the lock.
\* The threads are interchangeable: of the idle ones the lowest makes the call.
RegCall(t) ==
    /\ rpc[t] = "idle"
    /\ \A u \in RegThreads : u < t => rpc[u] # "idle"
    /\ nGet < MaxGets
    /\ \E id \in MetricIds, k \in RequestedKinds :
          rframe' = [rframe EXCEPT ![t] =
                       [op |-> "get", id |-> id, kind |-> k, found |-> NoEntry,
                        invoked |-> FALSE, made |-> 0, changed |-> FALSE,
                        removedSince |-> FALSE, result |-> NoResult]]
    /\ rpc' = [rpc EXCEPT ![t] = "calling"]
    /\ nGet' = nGet + 1
    /\ UNCHANGED <<regMap, mapHeap, lockHolder, snapshots, nextInst, firstEntry, origEntry, lastRemove>>
    /\ UNCHANGED notRegVars

\* self.metrics.lock(), Arc::make_mut, .entry(id) and the match on it. An
\* occupied entry returns or panics at once (the unwinding drops the guard); a
\* vacant one goes on to the factory with the lock held.
RegAcquire(t) ==
    /\ rpc[t] = "calling"
    /\ lockHolder = {}
    /\ LET f   == rframe[t]
           ptr == MakeMutPtr
           hp  == MakeMutHeap
           e   == hp[ptr][f.id]
           out == EntryOutcome(e, f.kind)
       IN /\ regMap' = ptr
          /\ mapHeap' = hp
          /\ \/ /\ out = "hit"
                /\ rframe' = [rframe EXCEPT ![t].found = e,
                                            ![t].changed = (hp[ptr] # RegContent),
                                            ![t].result = Returned(ArcClone(e.inst))]
                /\ rpc' = [rpc EXCEPT ![t] = "returned"]
                /\ UNCHANGED lockHolder
             \/ /\ out = "mismatch"
                /\ rframe' = [rframe EXCEPT ![t].found = e,
                                            ![t].changed = (hp[ptr] # RegContent),
                                            ![t].result = Panicked(f.kind, f.id)]
                /\ rpc' = [rpc EXCEPT ![t] = "returned"]
                /\ UNCHANGED lockHolder
             \/ /\ out = "vacant"
                /\ rframe' = [rframe EXCEPT ![t].found = e]
                /\ rpc' = [rpc EXCEPT ![t] = IF f.kind = "Gauge" THEN "insert" ELSE "factory"]
                /\ lockHolder' = {t}
    /\ UNCHANGED <<snapshots, nextInst, nGet, firstEntry, origEntry, lastRemove>>
    /\ UNCHANGED notRegVars

\* Arc::new(make_counter()): the caller's factory runs, with the lock held.
RegFactory(t) ==
    /\ rpc[t] = "factory"
    /\ rframe' = [rframe EXCEPT ![t].invoked = TRUE, ![t].made = nextInst]
    /\ nextInst' = nextInst + 1
    /\ rpc' = [rpc EXCEPT ![t] = "insert"]
    /\ UNCHANGED <<regMap, mapHeap, lockHolder, snapshots, nGet, firstEntry, origEntry, lastRemove>>
    /\ UNCHANGED notRegVars

\* e.insert(Metric::K(x.clone())); the instrument is returned and the guard
\* dropped. For a gauge the Arc is made here, from the value the caller passed.
RegInsert(t) ==
    /\ rpc[t] = "insert"
    /\ LET f    == rframe[t]
           inst == IF f.made = 0 THEN nextInst ELSE f.made
           new  == Entry(f.kind, inst)
       IN /\ mapHeap' = [mapHeap EXCEPT ![regMap][f.id] = new]
          /\ nextInst' = IF f.made = 0 THEN nextInst + 1 ELSE nextInst
          /\ rframe' = [rframe EXCEPT ![t].changed = TRUE, ![t].result = Returned(inst)]
          /\ firstEntry' = IF firstEntry[f.id] = NoEntry
                           THEN [firstEntry EXCEPT ![f.id] = new] ELSE firstEntry
          /\ origEntry' = IF origEntry[f.id] = NoEntry
                          THEN [origEntry EXCEPT ![f.id] = new] ELSE origEntry
    /\ lockHolder' = {}
    /\ rpc' = [rpc EXCEPT ![t] = "returned"]
    /\ UNCHANGED <<regMap, snapshots, nGet, lastRemove>>
    /\ UNCHANGED notRegVars

MapRemoveClears(m, id) == EmptyContent

\* HashMap::remove(&id): the entry under id is taken out of the map.
MapRemove(m, id) == [m EXCEPT ![id] = NoEntry]

\* remove(id): Arc::make_mut(&mut self.metrics.lock()).remove(&id.into()),
\* one step under the lock, by a thread that is in no other call; the
\* Option<Metric> it returns is kept in lastRemove.
RegRemove ==
    /\ {t \in RegThreads : rpc[t] = "idle"} # {}
    /\ lockHolder = {}
    /\ \E id \in MetricIds :
          LET ptr == MakeMutPtr
              hp  == MakeMutHeap
              e   == hp[ptr][id]
          IN /\ regMap' = ptr
             /\ mapHeap' = [hp EXCEPT ![ptr] = MapRemove(hp[ptr], id)]
             /\ rframe' = [u \in RegThreads |->
                            IF rpc[u] = "returned" /\ rframe[u].id = id /\ e # NoEntry
                            THEN [rframe[u] EXCEPT !.removedSince = TRUE]
                            ELSE rframe[u]]
             /\ origEntry' = [origEntry EXCEPT ![id] = NoEntry]
             /\ lastRemove' = [id |-> id, result |-> e]
    /\ UNCHANGED <<rpc, lockHolder, snapshots, nextInst, nGet, firstEntry>>
    /\ UNCHANGED notRegVars

\* metrics(): Metrics(self.metrics.lock().clone()), kept by the caller, a
\* thread that is in no other call.
RegMetrics ==
    /\ {t \in RegThreads : rpc[t] = "idle"} # {}
    /\ lockHolder = {}
    /\ \E s \in Slots :
          /\ snapshots[s] = NoSnapshot
          /\ snapshots' = [snapshots EXCEPT ![s] = [ptr |-> regMap, taken |-> RegContent]]
    /\ UNCHANGED <<regMap, mapHeap, lockHolder, rpc, rframe, nextInst, nGet,
                   firstEntry, origEntry, lastRemove>>
    /\ UNCHANGED notRegVars

\* A Metrics value is dropped; the last handle frees the map.
DropMetrics ==
    /\ \E s \in Slots :
          /\ snapshots[s] # NoSnapshot
          /\ snapshots' = [snapshots EXCEPT ![s] = NoSnapshot]
          /\ mapHeap' = IF StrongCount(snapshots[s].ptr) = 1
                        THEN [mapHeap EXCEPT ![snapshots[s].ptr] = EmptyContent]
                        ELSE mapHeap
    /\ UNCHANGED <<regMap, lockHolder, rpc, rframe, nextInst, nGet, firstEntry, origEntry, lastRemove>>
    /\ UNCHANGED notRegVars

\* The caller takes the result (or the panic is caught) and goes on.
RegFinish(t) ==
    /\ rpc[t] = "returned"
    /\ rpc' = [rpc EXCEPT ![t] = "idle"]
    /\ rframe' = [rframe EXCEPT ![t] = RegIdleFrame]
    /\ UNCHANGED <<regMap, mapHeap, lockHolder, snapshots, nextInst, nGet,
                   firstEntry, origEntry, lastRemove>>
    /\ UNCHANGED notRegVars

-----------------------------------------------------------------------------
(* mdc.rs: the thread-local MDC, its snapshots and the Scope guard.        *)

MdcThreads == {"main"}
Locals == 1..NLocals

\* Who owns a Snapshot value: a thread's MDC, or a local of the caller, which
\* holds a Snapshot or a Scope guard (its `old` field).
MdcOwner(t) == <<"mdc", t>>
SlotOwner(h) == <<"slot", h>>
\* The Bind futures, and the `snapshot` field of each.
Binds == {"task"}
BindOwner(b) == <<"bind", b>>
Owners ==
    {MdcOwner(t) : t \in MdcThreads} \cup {SlotOwner(h) : h \in Locals}
        \cup {BindOwner(b) : b \in Binds}
Fields == {"safe", "unsafe_"}

Keys == {"k"}
Values == {"v1", "v2"}
Absent == "Absent"

\* The contents of a HashMap<&'static str, Any>.
EmptyMap == [k \in Keys |-> Absent]

\* Where an Arc handle lives, and its rank among the handles.
Locs == Owners \X Fields
NLocs == 2 * Cardinality(Owners)
OwnerRank(o) == IF o[1] = "mdc" THEN 0 ELSE IF o[1] = "slot" THEN o[2] ELSE NLocals + 1
LocRank(l) == 2 * OwnerRank(l[1]) + (IF l[2] = "safe" THEN 1 ELSE 2)
LocAt == [r \in 1..NLocs |-> CHOOSE l \in Locs : LocRank(l) = r]

\* The allocations: EMPTY's, and at most one per Arc handle.
EmptyAddr == 0
MapAddrs == 0..NLocs

\* A Snapshot is two Arc handles; an owner that holds no Snapshot has none.
NoSnap == [safe |-> -1, unsafe_ |-> -1]
NewSnap == [safe |-> EmptyAddr, unsafe_ |-> EmptyAddr]
NoContent == [safe |-> EmptyMap, unsafe_ |-> EmptyMap]

\* The handles of the Snapshot values sn, by rank.
Handles(sn) == [r \in 1..NLocs |-> sn[LocAt[r][1]][LocAt[r][2]]]

\* The strong count of the Arc at address a: the handles on it in the
\* Snapshot values sn, and the one the static EMPTY keeps.
MdcStrongCount(sn, a) ==
    LET hs == Handles(sn)
    IN (IF a = EmptyAddr THEN 1 ELSE 0) + Cardinality({r \in 1..NLocs : hs[r] = a})

MdcIsUniqueAlways(sn, a) == TRUE

\* Arc::make_mut and Arc::get_mut give the map itself only to a unique handle.
MdcIsUnique(sn, a) == MdcStrongCount(sn, a) = 1

MdcFreshAddr(sn) ==
    LET hs == Handles(sn)
    IN CHOOSE a \in MapAddrs : a # EmptyAddr /\ \A r \in 1..NLocs : hs[r] # a

\* The lowest rank among the handles hs on the allocation at address a.
Rep(hs, a) ==
    IF a = EmptyAddr \/ a = -1 THEN a
    ELSE CHOOSE r \in 1..NLocs : hs[r] = a /\ \A q \in 1..(r - 1) : hs[q] # a

\* The new name of each handle: the lowest rank among the handles that share
\* its allocation.
Renamed(hs) == [r \in 1..NLocs |-> Rep(hs, hs[r])]

\* Which address the allocator hands out is not observable: an allocation is
\* named by the lowest-ranked handle on it, and an allocation whose last
\* handle is gone is freed.
Normalize(st, hs, rp) ==
    <<[o \in Owners |-> [f \in Fields |-> rp[LocRank(<<o, f>>)]]],
      [b \in MapAddrs |->
         IF b = EmptyAddr THEN st[2][b]
         ELSE IF rp[b] = b THEN st[2][hs[b]]
         ELSE EmptyMap]>>

\* The state <<snaps, arcHeap>> after Arc::make_mut(&mut map.map) followed by a
\* write of val under key (insert) or the removal of key (val = Absent).
MapWrite(st, o, f, key, val) ==
    LET sn  == st[1]
        hp  == st[2]
        a   == sn[o][f]
        tgt == IF MdcIsUnique(sn, a) THEN a ELSE MdcFreshAddr(sn)
    IN <<[sn EXCEPT ![o][f] = tgt],
         [hp EXCEPT ![tgt] = [hp[a] EXCEPT ![key] = val]]>>

\* Map::clear: match Arc::get_mut { Some(map) => map.clear(), None => *self = Map::new() }
MapClear(st, o, f) ==
    LET sn == st[1]
        hp == st[2]
        a  == sn[o][f]
    IN IF MdcIsUnique(sn, a)
       THEN <<sn, [hp EXCEPT ![a] = EmptyMap]>>
       ELSE <<[sn EXCEPT ![o][f] = EmptyAddr], hp>>

\* The contents of the Snapshot sn[o], read through its handles in the heap hp.
ContentIn(st, o) == [f \in Fields |-> st[2][st[1][o][f]]]
ContentOf(o) == ContentIn(<<snaps, arcHeap>>, o)

SwapNoop(a, b) == <<a, b>>

\* mem::swap(a, b): what a and b hold afterwards.
MemSwap(a, b) == <<b, a>>

\* What a step did, if it dropped a Scope guard: on which thread, what the MDC
\* held when scope() was called, and what it held just before the drop.
NoScopeDrop == [dropped |-> FALSE, by |-> "none", saved |-> NoContent, before |-> NoContent]

IsSnapshot(h) == slotKind[h] \in {"snapshot", "edited"}

\* The Snapshot values and the heap an operation leaves behind.
MdcCommit(st) ==
    \E s \in {st} :
        \E hs \in {Handles(s[1])} :
            \E rp \in {Renamed(hs)} :
                \E n \in {Normalize(s, hs, rp)} :
                    /\ snaps' = n[1]
                    /\ arcHeap' = n[2]

\* insert_safe / insert_unsafe: MDC.with(|v| v.borrow_mut().safe_mut().insert(key, value))
MdcInsert(t) ==
    \E f \in Fields, k \in Keys, v \in Values :
        LET o == MdcOwner(t)
        IN /\ MdcCommit(MapWrite(<<snaps, arcHeap>>, o, f, k, v))
           /\ expect' = [expect EXCEPT ![o][f][k] = v]
           /\ lastScopeDrop' = NoScopeDrop
           /\ UNCHANGED slotKind
           /\ UNCHANGED notMdcVars

\* remove_safe / remove_unsafe
MdcRemove(t) ==
    \E f \in Fields, k \in Keys :
        LET o == MdcOwner(t)
        IN /\ MdcCommit(MapWrite(<<snaps, arcHeap>>, o, f, k, Absent))
           /\ expect' = [expect EXCEPT ![o][f][k] = Absent]
           /\ lastScopeDrop' = NoScopeDrop
           /\ UNCHANGED slotKind
           /\ UNCHANGED notMdcVars

\* clear(): mdc.safe_mut().clear(); mdc.unsafe_mut().clear();
MdcClear(t) ==
    LET o == MdcOwner(t)
    IN /\ MdcCommit(MapClear(MapClear(<<snaps, arcHeap>>, o, "safe"), o, "unsafe_"))
       /\ expect' = [expect EXCEPT ![o] = NoContent]
       /\ lastScopeDrop' = NoScopeDrop
       /\ UNCHANGED slotKind
       /\ UNCHANGED notMdcVars

\* let s = snapshot(): MDC.with(|v| v.borrow().clone())
MdcSnapshot(t) ==
    \E h \in Locals :
        /\ slotKind[h] = "free"
        /\ slotKind' = [slotKind EXCEPT ![h] = "snapshot"]
        /\ MdcCommit(<<[snaps EXCEPT ![SlotOwner(h)] = snaps[MdcOwner(t)]], arcHeap>>)
        /\ expect' = [expect EXCEPT ![SlotOwner(h)] = ContentOf(MdcOwner(t))]
        /\ lastScopeDrop' = NoScopeDrop
        /\ UNCHANGED notMdcVars

\* The caller changes a snapshot it holds: s.safe_mut().insert(k, v),
\* s.unsafe_mut().remove(k), s.safe_mut().clear(), ...
HeldMutate ==
    \E h \in Locals, f \in Fields :
        LET o == SlotOwner(h)
        IN /\ IsSnapshot(h)
           /\ slotKind' = [slotKind EXCEPT ![h] = "edited"]
           /\ \/ \E k \in Keys, v \in Values \cup {Absent} :
                    /\ MdcCommit(MapWrite(<<snaps, arcHeap>>, o, f, k, v))
                    /\ expect' = [expect EXCEPT ![o][f][k] = v]
              \/ /\ MdcCommit(MapClear(<<snaps, arcHeap>>, o, f))
                 /\ expect' = [expect EXCEPT ![o][f] = EmptyMap]
           /\ lastScopeDrop' = NoScopeDrop
           /\ UNCHANGED notMdcVars

\* A snapshot the caller holds is dropped.
HeldDrop ==
    \E h \in Locals :
        /\ IsSnapshot(h)
        /\ slotKind' = [slotKind EXCEPT ![h] = "free"]
        /\ MdcCommit(<<[snaps EXCEPT ![SlotOwner(h)] = NoSnap], arcHeap>>)
        /\ expect' = [expect EXCEPT ![SlotOwner(h)] = NoContent]
        /\ lastScopeDrop' = NoScopeDrop
        /\ UNCHANGED notMdcVars

\* set(s.clone()): mem::replace(&mut *v.borrow_mut(), snapshot); the previous
\* state it returns is dropped by the caller.
MdcSet(t) ==
    \E h \in Locals :
        /\ IsSnapshot(h)
        /\ MdcCommit(<<[snaps EXCEPT ![MdcOwner(t)] = snaps[SlotOwner(h)]], arcHeap>>)
        /\ expect' = [expect EXCEPT ![MdcOwner(t)] = expect[SlotOwner(h)]]
        /\ lastScopeDrop' = NoScopeDrop
        /\ UNCHANGED slotKind
        /\ UNCHANGED notMdcVars

\* swap(&mut s): mem::swap(&mut *v.borrow_mut(), snapshot)
MdcSwap(t) ==
    \E h \in Locals :
        LET sw == MemSwap(snaps[MdcOwner(t)], snaps[SlotOwner(h)])
        IN /\ IsSnapshot(h)
           /\ slotKind' = [slotKind EXCEPT ![h] = "edited"]
           /\ MdcCommit(<<[snaps EXCEPT ![MdcOwner(t)] = sw[1], ![SlotOwner(h)] = sw[2]],
                          arcHeap>>)
           /\ expect' = [expect EXCEPT ![MdcOwner(t)] = expect[SlotOwner(h)],
                                       ![SlotOwner(h)] = expect[MdcOwner(t)]]
           /\ lastScopeDrop' = NoScopeDrop
           /\ UNCHANGED notMdcVars

\* let g = scope(): Scope { old: snapshot() }
MdcScope(t) ==
    \E g \in Locals :
        /\ slotKind[g] = "free"
        /\ slotKind' = [slotKind EXCEPT ![g] = "scope"]
        /\ MdcCommit(<<[snaps EXCEPT ![SlotOwner(g)] = snaps[MdcOwner(t)]], arcHeap>>)
        /\ expect' = [expect EXCEPT ![SlotOwner(g)] = ContentOf(MdcOwner(t))]
        /\ lastScopeDrop' = NoScopeDrop
        /\ UNCHANGED notMdcVars

\* drop(g): impl Drop for Scope { swap(&mut self.old) }, then `old`, which now
\* holds what the MDC held, is dropped with the guard.
ScopeDrop(t) ==
    \E g \in Locals :
        LET sw    == MemSwap(snaps[MdcOwner(t)], snaps[SlotOwner(g)])
            st    == <<[snaps EXCEPT ![MdcOwner(t)] = sw[1], ![SlotOwner(g)] = NoSnap],
                       arcHeap>>
        IN /\ slotKind[g] = "scope"
           /\ slotKind' = [slotKind EXCEPT ![g] = "free"]
           /\ MdcCommit(st)
           /\ expect' = [expect EXCEPT ![MdcOwner(t)] = expect[SlotOwner(g)],
                                       ![SlotOwner(g)] = NoContent]
           /\ lastScopeDrop' =
                 [dropped |-> TRUE,
                  by      |-> t,
                  saved   |-> expect[SlotOwner(g)],
                  before  |-> ContentOf(MdcOwner(t))]
           /\ UNCHANGED notMdcVars

-----------------------------------------------------------------------------
(* mdc.rs: bind() and the Bind future.                                     *)

NoBind == [pc |-> "none", by |-> "none", polls |-> 0, ctx |-> NoContent, pre |-> NoContent]
NoPoll == [kind |-> "none", by |-> "none", pre |-> NoContent]

\* No Bind is inside a poll or a drop on thread t.
ThreadFree(t) ==
    \A b \in Binds : binds[b].pc \in {"entered", "running", "dropping"} => binds[b].by # t

\* let _guard = Guard(this.snapshot): what the MDC and the snapshot hold once
\* the guard is built. Guard is a tuple struct: building it runs no code.
GuardNew(mdc, snapshot) == <<mdc, snapshot>>

\* impl Drop for Guard: swap(self.0)
GuardDrop(mdc, snapshot) == MemSwap(mdc, snapshot)

\* let fut = bind(future): Bind { future: Some(future), snapshot: snapshot() }
BindCreate(t) ==
    \E b \in Binds :
        /\ binds[b].pc = "none"
        /\ ThreadFree(t)
        /\ MdcCommit(<<[snaps EXCEPT ![BindOwner(b)] = snaps[MdcOwner(t)]], arcHeap>>)
        /\ expect' = [expect EXCEPT ![BindOwner(b)] = ContentOf(MdcOwner(t))]
        /\ binds' = [binds EXCEPT ![b] = [NoBind EXCEPT !.pc = "idle",
                                                        !.ctx = ContentOf(MdcOwner(t))]]
        /\ lastPoll' = NoPoll
        /\ UNCHANGED <<slotKind, lastScopeDrop>>
        /\ UNCHANGED notBindVars

\* Between the resumptions of a task its thread runs other code, which writes
\* the thread's MDC with insert_* and remove_*.
OtherTaskWrite(t) ==
    \E f \in Fields, k \in Keys, v \in Values \cup {Absent} :
        /\ ThreadFree(t)
        /\ MdcCommit(MapWrite(<<snaps, arcHeap>>, MdcOwner(t), f, k, v))
        /\ expect' = [expect EXCEPT ![MdcOwner(t)][f][k] = v]
        /\ lastPoll' = NoPoll
        /\ UNCHANGED <<slotKind, lastScopeDrop, binds>>
        /\ UNCHANGED notBindVars

\* Bind::poll up to the call of the inner future's poll:
\*   let this = self.project(); let _guard = Guard(this.snapshot);
PollStart(t) ==
    \E b \in Binds :
        LET g == GuardNew(snaps[MdcOwner(t)], snaps[BindOwner(b)])
            e == GuardNew(expect[MdcOwner(t)], expect[BindOwner(b)])
        IN /\ binds[b].pc = "idle"
           /\ ThreadFree(t)
           /\ MdcCommit(<<[snaps EXCEPT ![MdcOwner(t)] = g[1], ![BindOwner(b)] = g[2]],
                          arcHeap>>)
           /\ expect' = [expect EXCEPT ![MdcOwner(t)] = e[1], ![BindOwner(b)] = e[2]]
           /\ binds' = [binds EXCEPT ![b].pc = "entered", ![b].by = t,
                                     ![b].pre = ContentOf(MdcOwner(t))]
           /\ lastPoll' = NoPoll
           /\ UNCHANGED <<slotKind, lastScopeDrop>>
           /\ UNCHANGED notBindVars

\* The inner future, inside its poll, writes the MDC of the polling thread.
InnerWrite(t) ==
    \E b \in Binds, f \in Fields, k \in Keys, v \in Values \cup {Absent} :
        /\ binds[b].pc \in {"entered", "running"}
        /\ binds[b].by = t
        /\ MdcCommit(MapWrite(<<snaps, arcHeap>>, MdcOwner(t), f, k, v))
        /\ expect' = [expect EXCEPT ![MdcOwner(t)][f][k] = v]
        /\ binds' = [binds EXCEPT ![b].pc = "running"]
        /\ lastPoll' = NoPoll
        /\ UNCHANGED <<slotKind, lastScopeDrop>>
        /\ UNCHANGED notBindVars

\* The inner poll returns Pending or Ready and Bind::poll returns: _guard drops.
PollEnd(t) ==
    \E b \in Binds, ready \in BOOLEAN :
        LET g == GuardDrop(snaps[MdcOwner(t)], snaps[BindOwner(b)])
        IN /\ binds[b].pc \in {"entered", "running"}
           /\ binds[b].by = t
           /\ ready \/ binds[b].polls + 1 < MaxPolls
           /\ MdcCommit(<<[snaps EXCEPT ![MdcOwner(t)] = g[1], ![BindOwner(b)] = g[2]],
                          arcHeap>>)
           /\ expect' = [expect EXCEPT ![MdcOwner(t)] = expect[BindOwner(b)],
                                       ![BindOwner(b)] = expect[MdcOwner(t)]]
           /\ binds' = [binds EXCEPT ![b].pc = IF ready THEN "ready" ELSE "idle",
                                     ![b].polls = @ + 1,
                                     ![b].ctx = ContentOf(MdcOwner(t)),
                                     ![b].pre = NoContent]
           /\ lastPoll' = [kind |-> "poll", by |-> t, pre |-> binds[b].pre]
           /\ UNCHANGED <<slotKind, lastScopeDrop>>
           /\ UNCHANGED notBindVars

\* PinnedDrop::drop up to this.future.set(None), which drops the inner future:
\*   let mut this = self.project(); let _guard = Guard(this.snapshot);
BindDropStart(t) ==
    \E b \in Binds :
        LET g == GuardNew(snaps[MdcOwner(t)], snaps[BindOwner(b)])
            e == GuardNew(expect[MdcOwner(t)], expect[BindOwner(b)])
        IN /\ binds[b].pc \in {"idle", "ready"}
           /\ ThreadFree(t)
           /\ MdcCommit(<<[snaps EXCEPT ![MdcOwner(t)] = g[1], ![BindOwner(b)] = g[2]],
                          arcHeap>>)
           /\ expect' = [expect EXCEPT ![MdcOwner(t)] = e[1], ![BindOwner(b)] = e[2]]
           /\ binds' = [binds EXCEPT ![b].pc = "dropping", ![b].by = t,
                                     ![b].pre = ContentOf(MdcOwner(t))]
           /\ lastPoll' = NoPoll
           /\ UNCHANGED <<slotKind, lastScopeDrop>>
           /\ UNCHANGED notBindVars

\* The inner future is dropped, _guard drops, and the fields of the Bind,
\* its snapshot among them, are dropped.
BindDropEnd(t) ==
    \E b \in Binds :
        LET g == GuardDrop(snaps[MdcOwner(t)], snaps[BindOwner(b)])
        IN /\ binds[b].pc = "dropping"
           /\ binds[b].by = t
           /\ MdcCommit(<<[snaps EXCEPT ![MdcOwner(t)] = g[1], ![BindOwner(b)] = NoSnap],
                          arcHeap>>)
           /\ expect' = [expect EXCEPT ![MdcOwner(t)] = expect[BindOwner(b)],
                                       ![BindOwner(b)] = NoContent]
           /\ binds' = [binds EXCEPT ![b] = NoBind]
           /\ lastPoll' = [kind |-> "drop", by |-> t, pre |-> binds[b].pre]
           /\ UNCHANGED <<slotKind, lastScopeDrop>>
           /\ UNCHANGED notBindVars

-----------------------------------------------------------------------------
(* counter.rs: Counter, an AtomicI64.                                      *)

\* An i64 is four 16-bit limbs, the lowest first, in two's complement.
Limb == 65536
Limbs == 1..4
I64Zero == <<0, 0, 0, 0>>
I64One == <<1, 0, 0, 0>>
I64MinusOne == <<Limb - 1, Limb - 1, Limb - 1, Limb - 1>>
I64Max == <<Limb - 1, Limb - 1, Limb - 1, Limb \div 2 - 1>>
I64Min == <<0, 0, 0, Limb \div 2>>

IsNegative(a) == a[4] >= Limb \div 2

\* a + b modulo 2^64.
WrappingAdd(a, b) ==
    LET s1 == a[1] + b[1]
        s2 == a[2] + b[2] + s1 \div Limb
        s3 == a[3] + b[3] + s2 \div Limb
        s4 == a[4] + b[4] + s3 \div Limb
    IN <<s1 % Limb, s2 % Limb, s3 % Limb, s4 % Limb>>

\* -a modulo 2^64.
WrappingNeg(a) == WrappingAdd([i \in Limbs |-> Limb - 1 - a[i]], I64One)

\* a - b modulo 2^64.
WrappingSub(a, b) == WrappingAdd(a, WrappingNeg(b))

\* The signed sum a + b does not fit an i64.
AddOverflows(a, b) ==
    /\ IsNegative(a) = IsNegative(b)
    /\ IsNegative(WrappingAdd(a, b)) # IsNegative(a)

FetchAddChecked(v, n) ==
    IF AddOverflows(v, n) THEN [value |-> v, panicked |-> TRUE]
    ELSE [value |-> WrappingAdd(v, n), panicked |-> FALSE]

\* AtomicI64::fetch_add(n, Relaxed): one atomic step, wrapping on overflow.
FetchAdd(v, n) == [value |-> WrappingAdd(v, n), panicked |-> FALSE]

\* AtomicI64::fetch_sub(n, Relaxed)
FetchSub(v, n) == [value |-> WrappingSub(v, n), panicked |-> FALSE]

Amounts == {I64One, I64Max, I64Min}

NoCount == [returned |-> FALSE, value |-> I64Zero]

\* The call runs while the model's budget of calls since clear() lasts.
CounterBudget == Len(counterLog) < MaxCounterOps

\* add(n): self.0.fetch_add(n, Ordering::Relaxed)
CounterAdd ==
    \E n \in Amounts :
        LET r == FetchAdd(counter.value, n)
        IN /\ CounterBudget
           /\ ~counter.panicked
           /\ counter' = r
           /\ counterLog' = Append(counterLog, [op |-> "add", n |-> n])
           /\ lastCount' = NoCount
           /\ UNCHANGED notCounterVars

\* sub(n): self.0.fetch_sub(n, Ordering::Relaxed)
CounterSub ==
    \E n \in Amounts :
        LET r == FetchSub(counter.value, n)
        IN /\ CounterBudget
           /\ ~counter.panicked
           /\ counter' = r
           /\ counterLog' = Append(counterLog, [op |-> "sub", n |-> n])
           /\ lastCount' = NoCount
           /\ UNCHANGED notCounterVars

\* inc(): self.add(1)
CounterInc ==
    LET r == FetchAdd(counter.value, I64One)
    IN /\ CounterBudget
       /\ ~counter.panicked
       /\ counter' = r
       /\ counterLog' = Append(counterLog, [op |-> "add", n |-> I64One])
       /\ lastCount' = NoCount
       /\ UNCHANGED notCounterVars

\* dec(): self.sub(1)
CounterDec ==
    LET r == FetchSub(counter.value, I64One)
    IN /\ CounterBudget
       /\ ~counter.panicked
       /\ counter' = r
       /\ counterLog' = Append(counterLog, [op |-> "sub", n |-> I64One])
       /\ lastCount' = NoCount
       /\ UNCHANGED notCounterVars

\* clear(): self.0.store(0, Ordering::Relaxed)
CounterClear ==
    /\ counterLog # <<>>
    /\ ~counter.panicked
    /\ counter' = [counter EXCEPT !.value = I64Zero]
    /\ counterLog' = <<>>
    /\ lastCount' = NoCount
    /\ UNCHANGED notCounterVars

\* count(): self.0.load(Ordering::Relaxed)
CounterCount ==
    /\ ~lastCount.returned
    /\ ~counter.panicked
    /\ lastCount' = [returned |-> TRUE, value |-> counter.value]
    /\ UNCHANGED <<counter, counterLog>>
    /\ UNCHANGED notCounterVars

-----------------------------------------------------------------------------
(* filter.rs: the prefix-based target filter.                              *)

\* A target is a string, here a sequence of characters.
Colon == ":"
TargetFoo == <<"f">>
TargetBar == <<"b">>
TargetFooBar == <<"f", Colon, Colon, "b">>
TargetFooBuz == <<"f", Colon, Colon, "z">>
TargetFooBarBuz == <<"f", Colon, Colon, "b", Colon, Colon, "z">>
TargetFooColonBar == <<"f", Colon, "b">>

\* The targets given to Builder::target_level and to Filter::enabled.
StoredTargets == {TargetFoo, TargetFooBar}
QueryTargets ==
    {TargetFoo, TargetBar, TargetFooBar, TargetFooBuz, TargetFooBarBuz, TargetFooColonBar}

\* str.split("::"), with cur the segment read so far.
RECURSIVE SplitFrom(_, _)
SplitFrom(str, cur) ==
    IF str = <<>> THEN <<cur>>
    ELSE IF Len(str) >= 2 /\ str[1] = Colon /\ str[2] = Colon
         THEN <<cur>> \o SplitFrom(SubSeq(str, 3, Len(str)), <<>>)
         ELSE SplitFrom(Tail(str), Append(cur, Head(str)))

Split(str) == SplitFrom(str, <<>>)

IsPrefix(p, q) == Len(p) <= Len(q) /\ SubSeq(q, 1, Len(p)) = p

\* SequenceTrie::new(): no key holds a value.
EmptyTrie == <<>>

\* SequenceTrie::insert: the value under key is set, replacing an earlier one.
TrieInsert(trie, key, value) ==
    [k \in DOMAIN trie \cup {key} |-> IF k = key THEN value ELSE trie[k]]

\* The trie has a node at path p: p leads towards a stored key.
TrieHasNode(trie, p) == \E k \in DOMAIN trie : IsPrefix(p, k)

Unset == "Unset"

GetAncestorRootOnly(trie, segs) == IF <<>> \in DOMAIN trie THEN trie[<<>>] ELSE Unset

\* SequenceTrie::get_ancestor: walk down from the root along segs while nodes
\* exist, remembering the value of the last node that holds one. i segments
\* have been consumed; best is the value remembered above the current node.
RECURSIVE TrieWalk(_, _, _, _)
TrieWalk(trie, segs, i, best) ==
    LET node == SubSeq(segs, 1, i)
        here == IF node \in DOMAIN trie THEN trie[node] ELSE best
    IN IF i < Len(segs) /\ TrieHasNode(trie, SubSeq(segs, 1, i + 1))
       THEN TrieWalk(trie, segs, i + 1, here)
       ELSE here

GetAncestor(trie, segs) == TrieWalk(trie, segs, 0, Unset)

\* Filter::enabled: metadata.level() <= *trie.get_ancestor(target.split("::")).unwrap()
FilterEnabledResult(trie, target, level) ==
    LevelLe(level, GetAncestor(trie, Split(target)))

MaxOfRoot(trie) == trie[<<>>]

\* self.trie.values().max().copied().unwrap(), by the derived Ord of LevelFilter
MaxOfValues(trie) ==
    CHOOSE f \in {trie[k] : k \in DOMAIN trie} :
        \A k \in DOMAIN trie : LevelFilterAsUsize(trie[k]) <= LevelFilterAsUsize(f)

NoQuery == [asked |-> FALSE, target |-> <<>>, level |-> "Fatal", result |-> FALSE]
NoMax == [asked |-> FALSE, value |-> "Off"]

\* Filter::builder(): an empty trie and the root at Error.
NewBuilder == [stage |-> "building", trie |-> EmptyTrie, root |-> "Error", directives |-> 0]

\* Builder::level
BuilderLevel ==
    \E l \in LevelFilter :
        /\ fbuilder.stage = "building"
        /\ l # fbuilder.root
        /\ fbuilder' = [fbuilder EXCEPT !.root = l]
        /\ UNCHANGED <<fquery, fmax>>
        /\ UNCHANGED notFilterVars

\* Builder::target_level: self.filter.trie.insert(target.split("::"), level)
BuilderTargetLevel ==
    \E target \in StoredTargets, l \in LevelFilter :
        /\ fbuilder.stage = "building"
        /\ fbuilder.directives < MaxDirectives
        /\ fbuilder' = [fbuilder EXCEPT !.trie = TrieInsert(@, Split(target), l),
                                        !.directives = @ + 1]
        /\ UNCHANGED <<fquery, fmax>>
        /\ UNCHANGED notFilterVars

\* Builder::build: self.filter.trie.insert_owned([], self.root)
BuilderBuild ==
    /\ fbuilder.stage = "building"
    /\ fbuilder' = [fbuilder EXCEPT !.stage = "built",
                                    !.trie = TrieInsert(@, <<>>, fbuilder.root),
                                    !.directives = 0]
    /\ UNCHANGED <<fquery, fmax>>
    /\ UNCHANGED notFilterVars

\* Filter::enabled
FilterEnabled ==
    \E target \in QueryTargets, level \in Level :
        /\ fbuilder.stage = "built"
        /\ fquery' = [asked |-> TRUE, target |-> target, level |-> level,
                      result |-> FilterEnabledResult(fbuilder.trie, target, level)]
        /\ UNCHANGED <<fbuilder, fmax>>
        /\ UNCHANGED notFilterVars

\* Filter::max_level
FilterMaxLevel ==
    /\ fbuilder.stage = "built"
    /\ ~fmax.asked
    /\ fmax' = [asked |-> TRUE, value |-> MaxOfValues(fbuilder.trie)]
    /\ UNCHANGED <<fbuilder, fquery>>
    /\ UNCHANGED notFilterVars

-----------------------------------------------------------------------------
(* logger.rs, macros.rs, private.rs: the sink behind logger() and the      *)
(* enabled! call site.                                                     *)

\* module_path!() of the call site.
ModulePath == "crate::module"

NopEnabledTrue == TRUE

\* impl Log for NopLogger: fn enabled(&self, _) -> bool { false }
NopEnabled == FALSE

\* Log::enabled of the sink: NopLogger's, one that admits everything (the
\* TestLogger of test.rs), and one that filters by level (at Error).
SinkEnabled(sink, level, target) ==
    IF sink = NopLogger THEN NopEnabled
    ELSE IF sink = "sinkA" THEN TRUE
    ELSE LevelLe(level, "Error")

\* Log::flush of NopLogger is empty; an installed sink's flush acts.
SinkFlushes(sink) == sink # NopLogger

EnabledAfterGateAlwaysAsk(ok) == "ask"

\* `level <= max_level() && private::enabled(..)`: && evaluates its right
\* side only when the left side is true.
EnabledAfterGate(ok) == IF ok THEN "ask" ELSE "returned"

\* The thread whose call sites are followed.
Sites == {1}

SinkBudget == sinkHist.calls < MaxSinkCalls

\* enabled!(level): let level = $lvl;
EnabledStart(t) ==
    /\ pc[t] = "idle"
    /\ SinkBudget
    /\ \E l \in Level :
          frame' = [frame EXCEPT ![t] =
                      [op |-> "enabled", level |-> l, target |-> ModulePath,
                       loaded |-> None, asked |-> <<>>, result |-> None]]
    /\ pc' = [pc EXCEPT ![t] = "gate"]
    /\ sinkHist' = [sinkHist EXCEPT !.calls = @ + 1]
    /\ UNCHANGED <<LOGGER, MAX_LOG_LEVEL_FILTER, RECORDS, okCalls, nSet, nErr, nLog>>
    /\ UNCHANGED notSinkVars

\* level <= max_level()
EnabledGate(t) ==
    /\ pc[t] = "gate"
    /\ LET f  == max_level
           ok == LevelLe(frame[t].level, f)
       IN /\ frame' = [frame EXCEPT ![t].loaded = f,
                                    ![t].result = IF EnabledAfterGate(ok) = "returned"
                                                  THEN "false" ELSE None]
          /\ pc' = [pc EXCEPT ![t] = EnabledAfterGate(ok)]
    /\ UNCHANGED <<LOGGER, MAX_LOG_LEVEL_FILTER, RECORDS, okCalls, nSet, nErr, nLog>>
    /\ UNCHANGED sinkHist
    /\ UNCHANGED notSinkVars

\* private::enabled(level, module_path!()):
\*   crate::logger().enabled(&Metadata::builder().level(level).target(target).build())
EnabledAsk(t) ==
    /\ pc[t] = "ask"
    /\ LET says == SinkEnabled(logger, frame[t].level, frame[t].target)
       IN frame' = [frame EXCEPT
                      ![t].asked = Append(@, [sink |-> logger, level |-> frame[t].level,
                                              target |-> frame[t].target]),
                      ![t].result = IF LevelLe(frame[t].level, frame[t].loaded) /\ says
                                    THEN "true" ELSE "false"]
    /\ pc' = [pc EXCEPT ![t] = "returned"]
    /\ UNCHANGED <<LOGGER, MAX_LOG_LEVEL_FILTER, RECORDS, okCalls, nSet, nErr, nLog>>
    /\ UNCHANGED sinkHist
    /\ UNCHANGED notSinkVars

\* logger().log(&record), called on the accessor's result.
AccessorLog(t) ==
    /\ pc[t] = "idle"
    /\ SinkBudget
    /\ \E l \in Level :
          RECORDS' = IF logger = NopLogger
                     THEN RECORDS
                     ELSE Append(RECORDS, [sink |-> logger, level |-> l])
    /\ sinkHist' = [sinkHist EXCEPT !.calls = @ + 1, !.logCalls = @ + 1]
    /\ UNCHANGED <<LOGGER, MAX_LOG_LEVEL_FILTER, pc, frame, okCalls, nSet, nErr, nLog>>
    /\ UNCHANGED notSinkVars

\* logger().flush()
AccessorFlush(t) ==
    /\ pc[t] = "idle"
    /\ SinkBudget
    /\ sinkHist' = [sinkHist EXCEPT !.calls = @ + 1, !.flushCalls = @ + 1,
                                    !.flushed = IF SinkFlushes(logger) THEN @ + 1 ELSE @]
    /\ UNCHANGED <<LOGGER, MAX_LOG_LEVEL_FILTER, pc, frame, RECORDS, okCalls, nSet, nErr, nLog>>
    /\ UNCHANGED notSinkVars

\* The enabled! expression has been used; the site is left.
EnabledFinish(t) ==
    /\ pc[t] = "returned"
    /\ pc' = [pc EXCEPT ![t] = "idle"]
    /\ frame' = [frame EXCEPT ![t] = IdleFrame]
    /\ UNCHANGED <<LOGGER, MAX_LOG_LEVEL_FILTER, RECORDS, okCalls, nSet, nErr, nLog>>
    /\ UNCHANGED sinkHist
    /\ UNCHANGED notSinkVars

\* set_max_level(f), from any thread, between the steps of a site.
SinkSetMaxLevel ==
    /\ \E f \in LevelFilter :
          /\ MAX_LOG_LEVEL_FILTER' = LevelFilterAsUsize(f)
          /\ MAX_LOG_LEVEL_FILTER' # MAX_LOG_LEVEL_FILTER
    /\ UNCHANGED <<LOGGER, pc, frame, RECORDS, okCalls, nSet, nErr, nLog>>
    /\ UNCHANGED sinkHist
    /\ UNCHANGED notSinkVars

-----------------------------------------------------------------------------
(* metric_id.rs: MetricId, and the registry's map keyed by it.             *)

MidHolders == {"x", "y"}
MidNames == {"counter", "timer"}
TagKeys == {"baz", "foo"}
TagValues == {"bar", "qux"}

\* Ord for Cow<'static, str>: byte order.
StrRank(k) ==
    CASE k = "bar" -> 1 [] k = "baz" -> 2 [] k = "foo" -> 3 [] k = "qux" -> 4

BTreeInsertPush(m, k, v) == Append(m, <<k, v>>)

\* BTreeMap::insert(k, v): the map is its entries in key order; an entry
\* with the key is overwritten.
BTreeInsert(m, k, v) ==
    LET below == SelectSeq(m, LAMBDA e : StrRank(e[1]) < StrRank(k))
        above == SelectSeq(m, LAMBDA e : StrRank(e[1]) > StrRank(k))
    IN below \o <<<<k, v>>>> \o above

\* MetricId::new(name): MetricId { name, tags: Tags(BTreeMap::new()) }. `hist`
\* is history: the with_tag calls made on the value, in order.
MetricIdNew(name) == [name |-> name, tags |-> <<>>, hist |-> <<>>]

\* #[derive(Eq, PartialEq, Hash)] on MetricId and Tags: field by field, the
\* map entry by entry.
MetricIdEq(a, b) == a.name = b.name /\ a.tags = b.tags

\* No MetricId built yet.
NoMetricId == [name |-> "", tags |-> <<>>, hist |-> <<>>]

\* A caller makes MetricId::new(name).
MidNew(h) ==
    /\ mids[h] = NoMetricId
    /\ \E n \in MidNames : mids' = [mids EXCEPT ![h] = MetricIdNew(n)]
    /\ UNCHANGED <<midReg, midGot>>
    /\ UNCHANGED notMidVars

\* with_tag(key, value): self.tags.0.insert(key.into(), value.into()); self
MidWithTag(h) ==
    /\ mids[h] # NoMetricId
    /\ midGot[h] = 0
    /\ Len(mids[h].hist) < MaxTags
    /\ \E k \in TagKeys, v \in TagValues :
          mids' = [mids EXCEPT ![h].tags = BTreeInsert(@, k, v),
                               ![h].hist = Append(@, <<k, v>>)]
    /\ UNCHANGED <<midReg, midGot>>
    /\ UNCHANGED notMidVars

\* registry.counter(id): the entry whose key equals the id, or a new one.
MidCounter(h) ==
    /\ mids[h] # NoMetricId
    /\ midGot[h] = 0
    /\ LET hit == {i \in 1..Len(midReg) : MetricIdEq(midReg[i].key, mids[h])}
       IN IF hit # {}
          THEN /\ midGot' = [midGot EXCEPT ![h] = midReg[CHOOSE i \in hit : TRUE].inst]
               /\ UNCHANGED midReg
          ELSE /\ midGot' = [midGot EXCEPT ![h] = Len(midReg) + 1]
               /\ midReg' = Append(midReg, [key |-> mids[h], inst |-> Len(midReg) + 1])
    /\ UNCHANGED mids
    /\ UNCHANGED notMidVars

-----------------------------------------------------------------------------
(* level.rs: FromStr for Level and LevelFilter. Strings are sequences of   *)
(* bytes.                                                                  *)

\* static LOG_LEVEL_NAMES: ["OFF", "FATAL", "ERROR", "WARN", "INFO", "DEBUG", "TRACE"]
LOG_LEVEL_NAMES ==
    << <<79, 70, 70>>, <<70, 65, 84, 65, 76>>, <<69, 82, 82, 79, 82>>, <<87, 65, 82, 78>>,
       <<73, 78, 70, 79>>, <<68, 69, 66, 85, 71>>, <<84, 82, 65, 67, 69>> >>

\* u8::to_ascii_lowercase: only b'A'..=b'Z' change.
ToAsciiLowercase(b) == IF b >= 65 /\ b <= 90 THEN b + 32 ELSE b

EqExact(a, b) == a = b

\* str::eq_ignore_ascii_case
EqIgnoreAsciiCase(a, b) ==
    /\ Len(a) = Len(b)
    /\ \A i \in 1..Len(a) : ToAsciiLowercase(a[i]) = ToAsciiLowercase(b[i])

\* LOG_LEVEL_NAMES.iter().position(|level| s.eq_ignore_ascii_case(level)),
\* zero-based; -1 stands for None.
NamePosition(s) ==
    LET hits == {i \in 1..Len(LOG_LEVEL_NAMES) : EqIgnoreAsciiCase(s, LOG_LEVEL_NAMES[i])}
    IN IF hits = {} THEN -1
       ELSE (CHOOSE i \in hits : \A j \in hits : i <= j) - 1

ParseErr == "FromStrError"

\* Level::from_usize
LevelFromUsize(n) ==
    CASE n = 1 -> "Fatal" [] n = 2 -> "Error" [] n = 3 -> "Warn" [] n = 4 -> "Info"
      [] n = 5 -> "Debug" [] n = 6 -> "Trace" [] OTHER -> None

\* LevelFilter::from_usize
LevelFilterFromUsizeOpt(n) ==
    CASE n = 0 -> "Off" [] n = 1 -> "Fatal" [] n = 2 -> "Error" [] n = 3 -> "Warn"
      [] n = 4 -> "Info" [] n = 5 -> "Debug" [] n = 6 -> "Trace" [] OTHER -> None

\* .ok_or(FromStrError(()))
OkOr(opt) == IF opt = None THEN ParseErr ELSE opt

\* <Level as FromStr>::from_str
LevelFromStr(s) == OkOr(LevelFromUsize(NamePosition(s)))

\* <LevelFilter as FromStr>::from_str
LevelFilterFromStr(s) == OkOr(LevelFilterFromUsizeOpt(NamePosition(s)))

\* Every upper/lower-case spelling of a name.
RECURSIVE Spellings(_)
Spellings(name) ==
    IF name = <<>> THEN {<<>>}
    ELSE {<<c>> \o r : c \in {Head(name), Head(name) + 32}, r \in Spellings(Tail(name))}

\* Strings that are no level name: "", "OF", "errorx", "WARNING", " info",
\* "inf0", "o&f" ('F' - 32), "[arn" ('W' + 4), "tr`ce" ('A' + 31), "debu\xE7".
OtherStrings ==
    { <<>>, <<79, 70>>, <<101, 114, 114, 111, 114, 120>>,
      <<87, 65, 82, 78, 73, 78, 71>>, <<32, 105, 110, 102, 111>>,
      <<105, 110, 102, 48>>, <<111, 38, 102>>, <<91, 97, 114, 110>>,
      <<116, 114, 96, 99, 101>>, <<100, 101, 98, 117, 231>> }

ParseInputs ==
    UNION {Spellings(LOG_LEVEL_NAMES[i]) : i \in 1..Len(LOG_LEVEL_NAMES)} \cup OtherStrings

NoParse == [fn |-> "none", input |-> <<>>, result |-> None]

\* s.parse::<Level>()
ParseLevel ==
    /\ \E s \in ParseInputs :
          lastParse' = [fn |-> "Level", input |-> s, result |-> LevelFromStr(s)]
    /\ UNCHANGED notParseVars

\* s.parse::<LevelFilter>()
ParseLevelFilter ==
    /\ \E s \in ParseInputs :
          lastParse' = [fn |-> "LevelFilter", input |-> s, result |-> LevelFilterFromStr(s)]
    /\ UNCHANGED notParseVars

-----------------------------------------------------------------------------
(* histogram.rs: Histogram.                                                *)

HistThreads == {"h1", "h2"}
HistValues == {10, 15}

HIdleFrame == [at |-> "idle", value |-> 0]

CountLoadStore(c) == c

\* self.count.fetch_add(1, Ordering::Relaxed): one atomic read-modify-write.
\* The u64 cannot wrap within MaxUpdates calls.
CountFetchAdd(c) == c + 1

\* A thread calls update(value).
HistUpdateCall(t) ==
    /\ hframe[t].at = "idle"
    /\ hCalls.started < MaxUpdates
    /\ \E v \in HistValues : hframe' = [hframe EXCEPT ![t] = [at |-> "count", value |-> v]]
    /\ hCalls' = [hCalls EXCEPT !.started = @ + 1]
    /\ UNCHANGED histogram
    /\ UNCHANGED notHistVars

\* self.count.fetch_add(1, Ordering::Relaxed);
HistFetchAdd(t) ==
    /\ hframe[t].at = "count"
    /\ histogram' = [histogram EXCEPT !.count = CountFetchAdd(@)]
    /\ hframe' = [hframe EXCEPT ![t].at = "reservoir"]
    /\ UNCHANGED hCalls
    /\ UNCHANGED notHistVars

\* self.reservoir.update(value); the call returns.
HistReservoirUpdate(t) ==
    /\ hframe[t].at = "reservoir"
    /\ histogram' = [histogram EXCEPT !.reservoir = Append(@, hframe[t].value)]
    /\ hframe' = [hframe EXCEPT ![t] = HIdleFrame]
    /\ hCalls' = [hCalls EXCEPT !.done = @ + 1, !.values = Append(@, hframe[t].value)]
    /\ UNCHANGED notHistVars

-----------------------------------------------------------------------------
(* timer.rs: Timer and its Time guard; meter.rs: the count of a Meter.     *)

TimeGuards == {"g1", "g2"}

\* Duration::as_nanos() is a u128: eight 16-bit limbs, the lowest first.
DurationFromNanos(n) == <<n, 0, 0, 0, 0, 0, 0, 0>>

\* Duration::from_nanos(u64::MAX)
DurationU64Max == <<Limb - 1, Limb - 1, Limb - 1, Limb - 1, 0, 0, 0, 0>>

\* The durations callers pass to update: 0 ns, 5 ns (test::basic) and the
\* longest a u64 of nanoseconds can express.
Durations == {DurationFromNanos(0), DurationFromNanos(5), DurationU64Max}

\* `as i64` of a u128 keeps the low 64 bits.
U128AsI64(d) == SubSeq(d, 1, 4)

\* Meter::count(): self.state.lock().count + self.uncounted.load(SeqCst)
MeterCount(m) == m.counted + m.uncounted

\* Meter::mark(1): tick_if_necessary(now), then uncounted.fetch_add(1). The
\* tick, taken when 5 s have passed on the system clock, moves the uncounted
\* events into state.count under the lock.
MeterMark(m, ticks) ==
    IF ticks THEN [counted |-> m.counted + m.uncounted, uncounted |-> 1]
    ELSE [m EXCEPT !.uncounted = @ + 1]

\* Timer::update(duration): self.meter.mark(1);
\* let nanos = duration.as_nanos() as i64; self.reservoir.update(nanos);
TimerUpdated(tm, d, ticks) ==
    [tm EXCEPT !.meter = MeterMark(@, ticks),
               !.reservoir = Append(@, U128AsI64(d))]

\* A caller calls timer.update(duration).
TimerUpdate ==
    /\ timerLog.updates < MaxTimerUpdates
    /\ \E d \in Durations, ticks \in BOOLEAN :
          /\ timer' = TimerUpdated(timer, d, ticks)
          /\ timerLog' = [timerLog EXCEPT !.updates = @ + 1, !.durations = Append(@, d)]
    /\ UNCHANGED guards
    /\ UNCHANGED notTimerVars

\* Time passes on the injected clock.
ClockAdvance ==
    /\ timer.clock < MaxClock
    /\ timer' = [timer EXCEPT !.clock = @ + 1]
    /\ UNCHANGED <<guards, timerLog>>
    /\ UNCHANGED notTimerVars

\* timer.time(): Time { timer: self, start: self.clock.now() }
TimerTime(g) ==
    /\ guards[g].state = "none"
    /\ guards' = [guards EXCEPT ![g] = [state |-> "live", start |-> timer.clock]]
    /\ UNCHANGED <<timer, timerLog>>
    /\ UNCHANGED notTimerVars

\* impl Drop for Time: self.timer.update(self.timer.clock.now() - self.start)
TimeDrop(g) ==
    /\ guards[g].state = "live"
    /\ \E ticks \in BOOLEAN :
          LET d == DurationFromNanos(timer.clock - guards[g].start)
          IN /\ timer' = TimerUpdated(timer, d, ticks)
             /\ timerLog' = [timerLog EXCEPT
                               !.drops = @ + 1,
                               !.durations = Append(@, DurationFromNanos(timer.clock - guards[g].start))]
    /\ guards' = [guards EXCEPT ![g].state = "dropped"]
    /\ UNCHANGED notTimerVars

-----------------------------------------------------------------------------
(* bridge.rs: BridgedLogger, forwarding records of the log crate.          *)

\* log::Level
ForeignLevels == {"Error", "Warn", "Info", "Debug", "Trace"}

\* fn cvt_level(level: log::Level) -> Level
cvt_level(level) == level

\* What log's macros put in a record: format_args! of a literal alone
\* ("fizzbuzz"), or of a format string with arguments ("foobar {}", 123).
ForeignTexts == {"fizzbuzz", "foobar 123", ""}
ForeignTargets == {"crate::module", "dep"}
SomeFiles == {None, "src/lib.rs"}
SomeLines == {0, 17}

AsStrAlwaysSome(args) == args.text

\* fmt::Arguments::as_str(): Some(s) when the arguments are a static string
\* alone, None otherwise.
AsStr(args) == IF args.static THEN args.text ELSE None

\* Record::builder(): RecordBuilder::new()
RecordBuilderNew ==
    [level |-> "Info", target |-> "", file |-> None, line |-> 0, message |-> "",
     safe_params |-> <<>>, unsafe_params |-> <<>>]

\* <BridgedLogger as log::Log>::log, up to builder.build().
BridgedRecord(foreign) ==
    LET builder == [RecordBuilderNew EXCEPT !.level = cvt_level(foreign.level),
                                            !.target = foreign.target,
                                            !.file = foreign.file,
                                            !.line = foreign.line]
        unsafe_params == <<<<"message", foreign.args.text>>>>
    IN IF AsStr(foreign.args) # None
       THEN [builder EXCEPT !.message = AsStr(foreign.args)]
       ELSE [builder EXCEPT !.unsafe_params = unsafe_params]

NoBridged ==
    [foreign |-> [level |-> None, target |-> "", file |-> None, line |-> 0,
                  args |-> [static |-> TRUE, text |-> ""]],
     record |-> RecordBuilderNew]

\* log's macros call BridgedLogger.log(&record); the built Record goes to
\* crate::logger().log.
BridgeLog ==
    /\ \E l \in ForeignLevels, tg \in ForeignTargets, f \in SomeFiles, ln \in SomeLines,
          tx \in ForeignTexts, st \in BOOLEAN :
          LET foreign == [level |-> l, target |-> tg, file |-> f, line |-> ln,
                          args |-> [static |-> st, text |-> tx]]
          IN bridged' = [foreign |-> foreign, record |-> BridgedRecord(foreign)]
    /\ UNCHANGED notBridgeVars

-----------------------------------------------------------------------------
(* witchcraft-log-util: mdc.rs (the sentinel keys) and service.rs          *)
(* (from_record). Any values are tagged texts: "s:.." a string, "i:.." an  *)
(* integer.                                                                *)

UID_KEY == "\\0witchcraft-uid"
SID_KEY == "\\0witchcraft-sid"
TOKEN_ID_KEY == "\\0witchcraft-token-id"
ORG_ID_KEY == "\\0witchcraft-org-id"
TRACE_ID_KEY == "\\0witchcraft-trace-id"

SentinelKeys == {UID_KEY, SID_KEY, TOKEN_ID_KEY, ORG_ID_KEY, TRACE_ID_KEY}

\* The keys given to insert_safe / insert_unsafe: any &'static str.
SvcKeys == {"k"} \cup SentinelKeys
\* The keys of the params and unsafeParams of a service log.
ParamKeys == SvcKeys \cup {"p", "file", "line"}

SvcEmptyMap == [k \in SvcKeys |-> Absent]
NoParams == [k \in ParamKeys |-> Absent]

\* value.clone().deserialize_into::<UserId>() and the like: the id types are
\* aliases of string.
DeserializesIntoId(v) == v \in {"s:a", "s:b"}

RouteToParams(key) == "params"

\* The arms of `match key` in from_record: the builder field each key sets.
RouteOf(key) ==
    CASE key = UID_KEY -> "uid"
      [] key = SID_KEY -> "sid"
      [] key = TOKEN_ID_KEY -> "tokenId"
      [] key = ORG_ID_KEY -> "orgId"
      [] key = TRACE_ID_KEY -> "traceId"
      [] OTHER -> "params"

IdFields == {"uid", "sid", "tokenId", "orgId", "traceId"}

\* The key of the safe MDC that sets the field, if any is present and its
\* value deserializes.
IdFieldValue(safe, f) ==
    LET from == {k \in SvcKeys : safe[k] # Absent /\ RouteOf(k) = f /\ DeserializesIntoId(safe[k])}
    IN IF from = {} THEN Absent ELSE safe[CHOOSE k \in from : TRUE]

\* insert_params / insert_unsafe_params for each (key, value) of a slice, in
\* order: a later entry replaces an earlier one with the same key.
RECURSIVE InsertAll(_, _)
InsertAll(params, entries) ==
    IF entries = <<>> THEN params
    ELSE InsertAll([params EXCEPT ![Head(entries)[1]] = Head(entries)[2]], Tail(entries))

\* ServiceLogV1::builder().type_(..)
ServiceType == "service."

\* from_record(record), with the MDC the thread has. Records carry no error.
from_record(record, mdc) ==
    LET fromMdc == [k \in ParamKeys |->
                      IF k \in SvcKeys /\ mdc.safe[k] # Absent /\ RouteOf(k) = "params"
                      THEN mdc.safe[k] ELSE Absent]
        unsafeMdc == [k \in ParamKeys |-> IF k \in SvcKeys THEN mdc.unsafe_[k] ELSE Absent]
        withFile == IF record.file # None THEN [fromMdc EXCEPT !["file"] = record.file]
                    ELSE fromMdc
        withLine == IF record.line # None THEN [withFile EXCEPT !["line"] = record.line]
                    ELSE withFile
    IN [type |-> ServiceType,
        level |-> record.level,
        message |-> record.message,
        safe |-> TRUE,
        origin |-> record.target,
        uid |-> IdFieldValue(mdc.safe, "uid"),
        sid |-> IdFieldValue(mdc.safe, "sid"),
        tokenId |-> IdFieldValue(mdc.safe, "tokenId"),
        orgId |-> IdFieldValue(mdc.safe, "orgId"),
        traceId |-> IdFieldValue(mdc.safe, "traceId"),
        params |-> InsertAll(withLine, record.safe_params),
        unsafeParams |-> InsertAll(unsafeMdc, record.unsafe_params)]

\* The values callers insert: strings, and for some keys an integer.
SvcValues(key) == IF key \in {"k", UID_KEY, TRACE_ID_KEY} THEN {"s:a", "i:7"} ELSE {"s:a"}

NoSvcRecord ==
    [level |-> None, target |-> "", file |-> None, line |-> None, message |-> "",
     safe_params |-> <<>>, unsafe_params |-> <<>>]

NoSvcOut == [called |-> FALSE, record |-> NoSvcRecord, mdc |-> [safe |-> SvcEmptyMap, unsafe_ |-> SvcEmptyMap],
             log |-> [type |-> "", level |-> None, message |-> "", safe |-> FALSE, origin |-> "",
                      uid |-> Absent, sid |-> Absent, tokenId |-> Absent, orgId |-> Absent,
                      traceId |-> Absent, params |-> NoParams, unsafeParams |-> NoParams]]

\* mdc::insert_safe(key, value), from any code that links the crate.
SvcInsertSafe ==
    /\ \E k \in SvcKeys : \E v \in SvcValues(k) :
          /\ svcMdc.safe[k] # v
          /\ svcMdc' = [svcMdc EXCEPT !.safe[k] = v]
    /\ svcOut' = NoSvcOut
    /\ UNCHANGED notSvcVars

\* mdc::insert_unsafe(key, value)
SvcInsertUnsafe ==
    /\ \E k \in {"k", UID_KEY} :
          /\ svcMdc.unsafe_[k] # "s:b"
          /\ svcMdc' = [svcMdc EXCEPT !.unsafe_[k] = "s:b"]
    /\ svcOut' = NoSvcOut
    /\ UNCHANGED notSvcVars

\* The records the log macros build: with or without file and line, with
\* safe and unsafe parameters whose names may equal an MDC key.
SvcRecords ==
    {[level |-> l, target |-> "crate::module", file |-> loc[1], line |-> loc[2],
      message |-> "msg", safe_params |-> sp, unsafe_params |-> up] :
        l \in {"Info", "Error"},
        loc \in {<<None, None>>, <<"s:f.rs", "i:17">>},
        sp \in {<<>>, <<<<"k", "s:r">>>>, <<<<"p", "s:r">>, <<"p", "i:7">>>>},
        up \in {<<>>, <<<<"k", "s:u">>>>}}

\* A sink renders a record: service::from_record(record).
SvcFromRecord ==
    /\ \E record \in SvcRecords :
          svcOut' = [called |-> TRUE, record |-> record, mdc |-> svcMdc,
                     log |-> from_record(record, svcMdc)]
    /\ UNCHANGED svcMdc
    /\ UNCHANGED notSvcVars

-----------------------------------------------------------------------------
(* mdc.rs: Map::insert and the serialization of the value.                 *)

\* The maps insert reaches: insert_safe and insert_unsafe on the thread's
\* MDC, Map::insert on a map the caller holds.
InsTargets == {"mdc.safe", "mdc.unsafe_", "held"}
InsKeys == {"k", "j"}
\* A value whose Serialize impl fails stands beside the ones that serialize.
Unserializable == "unserializable"
InsValues == {"v1", "v2", Unserializable}
SerializeErr == "Err"

AnyNewInfallible(v) == v

\* Any::new(value): Err when the value's Serialize impl fails.
AnyNew(v) == IF v = Unserializable THEN SerializeErr ELSE v

\* Map::insert(key, value):
\*   let value = Any::new(value).expect("value failed to serialize");
\*   Arc::make_mut(&mut self.map).insert(key, value)
MapInsert(m, key, v) ==
    LET value == AnyNew(v)
    IN IF value = SerializeErr
       THEN [panicked |-> TRUE, map |-> m, old |-> Absent]
       ELSE [panicked |-> FALSE, map |-> [m EXCEPT ![key] = value], old |-> m[key]]

InsEmpty == [tg \in InsTargets |-> [k \in InsKeys |-> Absent]]
NoInsert == [target |-> None, key |-> None, value |-> None, before |-> InsEmpty,
             panicked |-> FALSE, old |-> Absent]

\* insert_safe(key, value), insert_unsafe(key, value) or map.insert(key, value);
\* a panic unwinds out of MDC.with, which releases the RefCell borrow.
InsInsert ==
    /\ \E tg \in InsTargets, k \in InsKeys, v \in InsValues :
          LET r == MapInsert(insMaps[tg], k, v)
          IN /\ insMaps' = [insMaps EXCEPT ![tg] = r.map]
             /\ lastInsert' = [target |-> tg, key |-> k, value |-> v, before |-> insMaps,
                               panicked |-> r.panicked, old |-> r.old]
    /\ UNCHANGED notInsVars

-----------------------------------------------------------------------------
(* mdc.rs: set and swap, on Snapshot values.                               *)

MemReplaceReturnsNew(dest, src) == [dest |-> src, ret |-> src]

\* mem::replace(dest, src): dest holds src, the old value is returned.
MemReplace(dest, src) == [dest |-> src, ret |-> dest]

NoSet == [op |-> "none", mdcBefore |-> NoContent, sBefore |-> NoContent, ret |-> NoContent,
          run |-> 0, mdcRun |-> NoContent, sRun |-> NoContent]

\* insert_safe, insert_unsafe, remove_safe, remove_unsafe, clear on the
\* thread: the MDC takes another value.
SsMdcWrite ==
    /\ \E f \in Fields, k \in Keys, v \in Values \cup {Absent} :
          /\ ssMdc[f][k] # v
          /\ ssMdc' = [ssMdc EXCEPT ![f][k] = v]
    /\ lastSet' = NoSet
    /\ UNCHANGED ssVar
    /\ UNCHANGED notSsVars

\* The caller edits its Snapshot s (safe_mut().insert, remove, ...).
SsVarWrite ==
    /\ \E f \in Fields, k \in Keys, v \in Values \cup {Absent} :
          /\ ssVar[f][k] # v
          /\ ssVar' = [ssVar EXCEPT ![f][k] = v]
    /\ lastSet' = NoSet
    /\ UNCHANGED ssMdc
    /\ UNCHANGED notSsVars

\* let prev = mdc::set(s.clone()): MDC.with(|v| mem::replace(&mut *v.borrow_mut(), snapshot))
SsSet ==
    /\ LET r == MemReplace(ssMdc, ssVar)
       IN /\ ssMdc' = r.dest
          /\ lastSet' = [NoSet EXCEPT !.op = "set", !.mdcBefore = ssMdc, !.sBefore = ssVar,
                                      !.ret = r.ret]
    /\ UNCHANGED ssVar
    /\ UNCHANGED notSsVars

\* mdc::swap(&mut s): MDC.with(|v| mem::swap(&mut *v.borrow_mut(), snapshot)).
\* History: run counts the swaps made in a row since the state (mdcRun, sRun).
SsSwap ==
    /\ LET sw    == MemSwap(ssMdc, ssVar)
           again == lastSet.op = "swap" /\ lastSet.run = 1
       IN /\ ssMdc' = sw[1]
          /\ ssVar' = sw[2]
          /\ lastSet' = [op |-> "swap", mdcBefore |-> ssMdc, sBefore |-> ssVar, ret |-> NoContent,
                         run |-> IF again THEN 2 ELSE 1,
                         mdcRun |-> IF again THEN lastSet.mdcRun ELSE ssMdc,
                         sRun |-> IF again THEN lastSet.sRun ELSE ssVar]
    /\ UNCHANGED notSsVars

-----------------------------------------------------------------------------
(* meter.rs: Meter and Ewma.                                               *)

MeterThreads == {1, 2}
MaxMeterCalls == 3

\* const INTERVAL_SECS: u64 = 5;
INTERVAL_SECS == 5

\* The whole seconds after start_time at which the clock is read.
Seconds == {0, 9, 10, 15}

\* The calls made: mark(n), count() and a rolling rate, which is one of the
\* three reads below; they differ only in the field of State they return.
MeterOps == {"mark", "count", "rate"}
RateOps == {"one_minute_rate", "five_minute_rate", "fifteen_minute_rate"}
RateField(op) ==
    CASE op = "one_minute_rate"     -> "rate_1m"
      [] op = "five_minute_rate"    -> "rate_5m"
      [] op = "fifteen_minute_rate" -> "rate_15m"

\* u64 values are kept by their representative nearest 0 modulo 2^64: a
\* negative r stands for 2^64 + r.
U64Lt(a, b) == IF (a >= 0) = (b >= 0) THEN a < b ELSE a >= 0

\* a - b on u64 where the build wraps; it overflows exactly when a < b, and
\* a build with overflow checks panics there.
U64WrappingSub(a, b) == a - b

\* 2^64 = 5 * 3689348814741910323 + 1
TwoPow64ModInterval == 1

\* a % INTERVAL_SECS on u64.
U64RemInterval(a) ==
    IF a >= 0 THEN a % INTERVAL_SECS ELSE (a + TwoPow64ModInterval) % INTERVAL_SECS

\* i32::try_from(a / INTERVAL_SECS - 1) for a >= INTERVAL_SECS: the quotient
\* of a wrapped value is above 2^61 and does not fit.
DecayTicks(a) ==
    IF a >= 0 THEN [fits |-> TRUE, ticks |-> a \div INTERVAL_SECS - 1]
    ELSE [fits |-> FALSE, ticks |-> 0]

\* A rate is kept exactly, in fifths of an event per second, as a polynomial
\* in d = 1 - alpha: the sequence of the integer coefficients of d^0, d^1, ..,
\* with no trailing zero.
RECURSIVE PolyTrim(_)
PolyTrim(p) ==
    IF p # <<>> /\ p[Len(p)] = 0 THEN PolyTrim(SubSeq(p, 1, Len(p) - 1)) ELSE p

PolyCoef(p, i) == IF i <= Len(p) THEN p[i] ELSE 0

PolyLen(p, q) == IF Len(p) >= Len(q) THEN Len(p) ELSE Len(q)

PolyAdd(p, q) == PolyTrim([i \in 1..PolyLen(p, q) |-> PolyCoef(p, i) + PolyCoef(q, i)])

PolySub(p, q) == PolyTrim([i \in 1..PolyLen(p, q) |-> PolyCoef(p, i) - PolyCoef(q, i)])

\* p * d^k
PolyTimesD(p, k) ==
    IF p = <<>> THEN <<>>
    ELSE [i \in 1..(Len(p) + k) |-> IF i <= k THEN 0 ELSE p[i - k]]

\* self.alpha * p, with alpha = 1 - d
PolyTimesAlpha(p) == PolySub(p, PolyTimesD(p, 1))

\* Ewma::new(minutes)
EwmaNew == [rate |-> <<>>, initialized |-> FALSE]

\* Ewma::tick(count): instant_rate = count / INTERVAL_SECS;
\* initialized: rate += alpha * (instant_rate - rate); else rate = instant_rate.
EwmaTick(e, count) ==
    LET instant_rate == PolyTrim(<<count>>)
    IN IF e.initialized
       THEN [e EXCEPT !.rate = PolyAdd(e.rate, PolyTimesAlpha(PolySub(instant_rate, e.rate)))]
       ELSE [rate |-> instant_rate, initialized |-> TRUE]

EwmaDecayOneMore(e, t) ==
    IF t.fits THEN [e EXCEPT !.rate = PolyTimesD(e.rate, t.ticks + 1)]
    ELSE [e EXCEPT !.rate = <<>>]

\* Ewma::decay(ticks): Ok(ticks) => rate *= (1 - alpha).powi(ticks),
\* Err(_) => rate = 0.
EwmaDecay(e, t) ==
    IF t.fits THEN [e EXCEPT !.rate = PolyTimesD(e.rate, t.ticks)]
    ELSE [e EXCEPT !.rate = <<>>]

\* Meter::new_at: State { count: 0, rate_1m, rate_5m, rate_15m }
NewState == [count |-> 0, rate_1m |-> EwmaNew, rate_5m |-> EwmaNew, rate_15m |-> EwmaNew]

\* Meter::new_at(start_time); holder is the set of the threads inside state.lock().
NewMeter == [uncounted |-> 0, last_tick |-> 0, holder |-> {}, state |-> NewState]

UncountedLoadOnly(u) == [old |-> u, new |-> u]

\* self.uncounted.swap(0, SeqCst)
UncountedSwap(u) == [old |-> u, new |-> 0]

\* tick_if_necessary, the part under the lock after the swap:
\* state.count += uncounted; each rate: tick(uncounted), decay(required_ticks - 1).
RollOver(st, uncounted, age) ==
    [count    |-> st.count + uncounted,
     rate_1m  |-> EwmaDecay(EwmaTick(st.rate_1m, uncounted), DecayTicks(age)),
     rate_5m  |-> EwmaDecay(EwmaTick(st.rate_5m, uncounted), DecayTicks(age)),
     rate_15m |-> EwmaDecay(EwmaTick(st.rate_15m, uncounted), DecayTicks(age))]

MIdleFrame == [op |-> None]
NoMeterResult == [tag |-> "none", count |-> 0, rate |-> <<>>]

\* The call of frame f returns: its locals are gone, the caller has the result.
MeterReturn(f, result) ==
    [f EXCEPT !.time = 0, !.old_tick = 0, !.age = 0, !.start = 0, !.u = 0, !.count = 0,
              !.result = result]

\* Which calls start with self.tick_if_necessary(now): mark_at and the three
\* *_rate_at do; count(), and mean_rate_at through count(), do not.
CallsTick(op) == op \in {"mark", "rate"}

\* The n of the k-th call when it is mark(n): the amounts differ, so that an
\* event lost or counted twice shows in the sum.
MarkAmount(op, k) == IF op = "mark" THEN k ELSE 0

\* The position after tick_if_necessary returned.
AfterTick(op) == IF op = "mark" THEN "add" ELSE "read"

\* A thread calls mark(n), count() or one of the rolling rates;
\* those that take a time read Instant::now() first. The result of its last
\* call is dropped. The threads are interchangeable: of the idle ones the
\* lowest makes the call.
MeterCall(t) ==
    /\ mpc[t] = "idle"
    /\ \A u \in MeterThreads : u < t => mpc[u] # "idle"
    /\ meterLog.calls < MaxMeterCalls
    /\ \E op \in MeterOps :
          /\ mframe' = [mframe EXCEPT ![t] =
                          [op |-> op, n |-> MarkAmount(op, meterLog.calls + 1), time |-> mnow, ticked |-> FALSE,
                           old_tick |-> 0, age |-> 0, start |-> 0, underflow |-> FALSE,
                           won |-> FALSE, lost |-> FALSE, u |-> 0, count |-> 0,
                           marked |-> 0, result |-> NoMeterResult]]
          /\ mpc' = [mpc EXCEPT ![t] = IF CallsTick(op) THEN "tick" ELSE "lock"]
    /\ meterLog' = [meterLog EXCEPT !.calls = @ + 1]
    /\ UNCHANGED <<mnow, meter>>
    /\ UNCHANGED notMeterVars

\* tick_if_necessary: old_tick = last_tick.load(); new_tick = (time -
\* start_time).as_secs(); age = new_tick - old_tick; age < INTERVAL_SECS
\* returns. When new_tick < old_tick the subtraction overflows: a build with
\* overflow checks panics, the others wrap.
TickLoad(t) ==
    /\ mpc[t] = "tick"
    /\ LET f        == mframe[t]
           old_tick == meter.last_tick
           new_tick == f.time
           over     == U64Lt(new_tick, old_tick)
           age      == U64WrappingSub(new_tick, old_tick)
           start    == U64WrappingSub(new_tick, U64RemInterval(age))
       IN \/ /\ over
             /\ mframe' = [mframe EXCEPT ![t] =
                             MeterReturn([f EXCEPT !.ticked = TRUE, !.underflow = TRUE],
                                         [NoMeterResult EXCEPT !.tag = "panic"])]
             /\ mpc' = [mpc EXCEPT ![t] = "idle"]
          \/ /\ mframe' = [mframe EXCEPT ![t].ticked = TRUE, ![t].old_tick = old_tick,
                                         ![t].age = age, ![t].start = start,
                                         ![t].underflow = over]
             /\ mpc' = [mpc EXCEPT ![t] = IF U64Lt(age, INTERVAL_SECS)
                                          THEN AfterTick(f.op) ELSE "cas"]
    /\ UNCHANGED <<mnow, meter, meterLog>>
    /\ UNCHANGED notMeterVars

\* last_tick.compare_exchange(old_tick, new_interval_start_tick): on Err
\* another thread has already ticked, return.
TickCas(t) ==
    /\ mpc[t] = "cas"
    /\ LET f == mframe[t]
       IN IF meter.last_tick = f.old_tick
          THEN /\ meter' = [meter EXCEPT !.last_tick = f.start]
               /\ mframe' = [mframe EXCEPT ![t].won = TRUE]
               /\ mpc' = [mpc EXCEPT ![t] = "roll"]
               /\ meterLog' = [meterLog EXCEPT !.rolls =
                                 Append(@, [old |-> f.old_tick, new |-> f.start, at |-> f.time])]
          ELSE /\ mframe' = [mframe EXCEPT ![t].lost = TRUE]
               /\ mpc' = [mpc EXCEPT ![t] = AfterTick(f.op)]
               /\ UNCHANGED <<meter, meterLog>>
    /\ UNCHANGED mnow
    /\ UNCHANGED notMeterVars

\* let mut state = self.state.lock(); let uncounted = self.uncounted.swap(0)
RollLock(t) ==
    /\ mpc[t] = "roll"
    /\ meter.holder = {}
    /\ LET sw == UncountedSwap(meter.uncounted)
       IN /\ meter' = [meter EXCEPT !.holder = {t}, !.uncounted = sw.new]
          /\ mframe' = [mframe EXCEPT ![t].u = sw.old]
    /\ mpc' = [mpc EXCEPT ![t] = "rolling"]
    /\ UNCHANGED <<mnow, meterLog>>
    /\ UNCHANGED notMeterVars

\* state.count += uncounted; the three rates tick and decay; the guard drops.
RollFinish(t) ==
    /\ mpc[t] = "rolling"
    /\ LET f     == mframe[t]
           after == RollOver(meter.state, f.u, f.age)
       IN /\ meter' = [meter EXCEPT !.holder = {}, !.state = after]
          /\ mpc' = [mpc EXCEPT ![t] = AfterTick(f.op)]
    /\ UNCHANGED <<mnow, mframe, meterLog>>
    /\ UNCHANGED notMeterVars

\* mark_at: self.uncounted.fetch_add(n, SeqCst)
MarkAdd(t) ==
    /\ mpc[t] = "add"
    /\ meter' = [meter EXCEPT !.uncounted = @ + mframe[t].n]
    /\ meterLog' = [meterLog EXCEPT !.marked = @ + mframe[t].n]
    /\ mframe' = [mframe EXCEPT ![t] =
                    MeterReturn(mframe[t], [NoMeterResult EXCEPT !.tag = "unit"])]
    /\ mpc' = [mpc EXCEPT ![t] = "idle"]
    /\ UNCHANGED mnow
    /\ UNCHANGED notMeterVars

\* *_rate_at: self.state.lock().rate_xx.get()
RateRead(t) ==
    /\ mpc[t] = "read"
    /\ meter.holder = {}
    /\ \E op \in RateOps :
          mframe' = [mframe EXCEPT ![t] =
                       MeterReturn(mframe[t],
                                   [tag |-> "rate", count |-> 0,
                                    rate |-> meter.state[RateField(op)].rate])]
    /\ mpc' = [mpc EXCEPT ![t] = "idle"]
    /\ UNCHANGED <<mnow, meter, meterLog>>
    /\ UNCHANGED notMeterVars

\* count(): self.state.lock().count, the guard living to the end of the
\* expression.
CountLock(t) ==
    /\ mpc[t] = "lock"
    /\ meter.holder = {}
    /\ meter' = [meter EXCEPT !.holder = {t}]
    /\ mframe' = [mframe EXCEPT ![t].count = meter.state.count]
    /\ mpc' = [mpc EXCEPT ![t] = "load"]
    /\ UNCHANGED <<mnow, meterLog>>
    /\ UNCHANGED notMeterVars

\* count(): .. + self.uncounted.load(SeqCst)
CountLoad(t) ==
    /\ mpc[t] = "load"
    /\ meter' = [meter EXCEPT !.holder = {}]
    /\ mframe' = [mframe EXCEPT ![t] =
                    MeterReturn([mframe[t] EXCEPT !.marked = meterLog.marked],
                                [tag |-> "count",
                                 count |-> mframe[t].count + meter.uncounted,
                                 rate |-> <<>>])]
    /\ mpc' = [mpc EXCEPT ![t] = "idle"]
    /\ UNCHANGED <<mnow, meterLog>>
    /\ UNCHANGED notMeterVars

\* Time passes on the monotonic clock.
MeterClockAdvance ==
    /\ \E s \in Seconds :
          /\ s > mnow
          /\ \A s2 \in Seconds : s2 > mnow => s <= s2
          /\ mnow' = s
    /\ UNCHANGED <<meter, mpc, mframe, meterLog>>
    /\ UNCHANGED notMeterVars

-----------------------------------------------------------------------------
(* registry.rs: a factory passed to counter_with / timer_with (and the     *)
(* other *_with functions) that itself calls the registry.                 *)

\* make_counter() is the caller's closure. Here it calls counter_with /
\* gauge / timer_with of the same registry: the outer call is suspended at
\* Arc::new(make_counter()), inside the match on
\* Arc::make_mut(&mut self.metrics.lock()).entry(..), whose guard is a
\* temporary of the scrutinee and lives to the end of the match. The nested
\* call is an ordinary call: it goes on through RegAcquire.
FactoryCallsRegistry(t) ==
    /\ rpc[t] = "factory"
    /\ outerCall[t] = RegIdleFrame
    /\ nGet < MaxGets
    /\ outerCall' = [outerCall EXCEPT ![t] = rframe[t]]
    /\ \E id \in MetricIds, k \in RequestedKinds :
          rframe' = [rframe EXCEPT ![t] =
                       [op |-> "get", id |-> id, kind |-> k, found |-> NoEntry,
                        invoked |-> FALSE, made |-> 0, changed |-> FALSE,
                        removedSince |-> FALSE, result |-> NoResult]]
    /\ rpc' = [rpc EXCEPT ![t] = "calling"]
    /\ nGet' = nGet + 1
    /\ UNCHANGED <<regMap, mapHeap, lockHolder, snapshots, nextInst, firstEntry, origEntry, lastRemove>>
    /\ UNCHANGED <<logVars, mdcVars, bindVars, counterVars, filterVars, sinkVars, midVars,
                   parseVars, histVars, timerVars, bridgeVars, svcVars, insVars, ssVars,
                   meterVars, shVars, envVars>>

-----------------------------------------------------------------------------
(* registry.rs, counter.rs: instruments shared between the registry, its   *)
(* snapshots and the callers that hold them.                               *)

\* The Arc<Counter> handles callers hold: the ones their calls returned and
\* the one inside the Metric that remove() returned.
HeldHandles ==
    {rframe[t].result.inst : t \in {u \in RegThreads : rpc[u] = "returned" /\ rframe[u].result.tag = "ret"}}
    \cup (IF lastRemove.result = NoEntry THEN {} ELSE {lastRemove.result.inst})

RECURSIVE SumOver(_, _)
SumOver(f, S) ==
    IF S = {} THEN 0
    ELSE LET x == CHOOSE y \in S : TRUE IN f[x] + SumOver(f, S \ {x})

\* The adds made so far, on all instruments together.
AddsMade == SumOver(instVal, InstIds)

\* counter.inc() through a handle a caller holds: fetch_add on the instrument
\* the handle points to, whether or not the registry still has it.
InstrumentAdd ==
    /\ AddsMade < MaxAdds
    /\ \E i \in HeldHandles :
          /\ instVal' = [instVal EXCEPT ![i] = @ + 1]
    /\ UNCHANGED <<logVars, regVars, mdcVars, bindVars, counterVars, filterVars, sinkVars,
                   midVars, parseVars, histVars, timerVars, bridgeVars, svcVars, insVars,
                   ssVars, meterVars, cbVars, envVars>>

\* counter.count() read through the entry a snapshot has under id.
SnapshotCount(s, id) == instVal[mapHeap[snapshots[s].ptr][id].inst]

\* counter.count() read through the handle thread t's call returned.
HandleCount(t) == instVal[rframe[t].result.inst]

-----------------------------------------------------------------------------
(* witchcraft-env-logger lib.rs: try_init, and the max level before and    *)
(* after it.                                                               *)

MaxLevelAtStartTrace == 6

\* static MAX_LOG_LEVEL_FILTER: AtomicUsize = AtomicUsize::new(0)
MaxLevelAtStart == 0

\* The threads that call try_init; the others are call sites of the macros.
InitCallers == Threads \ Emitters

\* Box::new(Logger { filter }): the sink try_init installs.
EnvLogger == "sinkA"

\* filter.max_level() for the values of RUST_LOG tried: unset or "off", "info",
\* "trace".
EnvMaxLevels == {"Off", "Info", "Trace"}

\* The levels the application passes to set_max_level.
AppMaxLevels == {"Off", "Warn"}

NoInit == [out |-> None, sawInstalled |-> FALSE, max_level |-> "Off"]

notLogEnvVars == <<regVars, mdcVars, bindVars, counterVars, filterVars, sinkVars, midVars,
                   parseVars, histVars, timerVars, bridgeVars, svcVars, insVars, ssVars,
                   meterVars, cbVars, shVars>>

TryInitSetsMaxLevelAlways(result) == TRUE

\* witchcraft_log::set_boxed_logger(..)?; witchcraft_log::set_max_level(max_level):
\* the `?` returns the error before set_max_level is reached.
TryInitSetsMaxLevel(result) == result = "Ok"

\* try_init() up to the call of set_boxed_logger: the filter is built from
\* RUST_LOG (any directives, so any max level), boxed with the Logger, and
\* set_boxed_logger is entered.
TryInitStart(t) ==
    /\ t \in InitCallers
    /\ pc[t] = "idle"
    /\ \A u \in InitCallers : u < t => pc[u] # "idle"
    /\ nSet < MaxSetCalls
    /\ \E f \in EnvMaxLevels :
          frame' = [frame EXCEPT ![t] =
                      [op |-> "set_boxed_logger", arg |-> EnvLogger, local |-> EnvLogger,
                       ran |-> FALSE, sawInstalled |-> LOGGER.state = "complete",
                       result |-> None, max_level |-> f, before |-> LOGGER]]
    /\ pc' = [pc EXCEPT ![t] = "once"]
    /\ nSet' = nSet + 1
    /\ UNCHANGED <<LOGGER, MAX_LOG_LEVEL_FILTER, RECORDS, okCalls, nErr, nLog, envLog>>
    /\ UNCHANGED notLogEnvVars

\* What the caller of try_init is left with: the Result, and for the record
\* what the call had found and computed.
TryInitOutcome(f) ==
    [out |-> f.result, sawInstalled |-> f.sawInstalled, max_level |-> f.max_level]

\* set_boxed_logger has returned: on Err try_init returns it, on Ok it stores
\* the filter's max level and returns Ok(()).
TryInitReturn(t) ==
    /\ t \in InitCallers
    /\ pc[t] = "returned"
    /\ IF TryInitSetsMaxLevel(frame[t].result)
       THEN /\ MAX_LOG_LEVEL_FILTER' = LevelFilterAsUsize(frame[t].max_level)
            /\ envLog' = [maxSet |-> TRUE, last |-> TryInitOutcome(frame[t])]
       ELSE /\ UNCHANGED MAX_LOG_LEVEL_FILTER
            /\ envLog' = [envLog EXCEPT !.last = TryInitOutcome(frame[t])]
    /\ frame' = [frame EXCEPT ![t] = IdleFrame]
    /\ pc' = [pc EXCEPT ![t] = "idle"]
    /\ UNCHANGED <<LOGGER, RECORDS, okCalls, nSet, nErr, nLog>>
    /\ UNCHANGED notLogEnvVars

\* set_max_level(level) called by the application itself.
AppSetMaxLevel ==
    /\ \E f \in AppMaxLevels :
          /\ MAX_LOG_LEVEL_FILTER' = LevelFilterAsUsize(f)
          /\ MAX_LOG_LEVEL_FILTER' # MAX_LOG_LEVEL_FILTER \/ ~envLog.maxSet
    /\ envLog' = [envLog EXCEPT !.maxSet = TRUE]
    /\ UNCHANGED <<LOGGER, pc, frame, RECORDS, okCalls, nSet, nErr, nLog>>
    /\ UNCHANGED notLogEnvVars

-----------------------------------------------------------------------------
(* The specifications.                                                     *)

LogIdle ==
    /\ pc = [t \in Threads |-> "idle"]
    /\ frame = [t \in Threads |-> IdleFrame]
    /\ RECORDS = <<>>
    /\ okCalls = <<>>
    /\ nSet = 0
    /\ nErr = 0
    /\ nLog = 0

\* MetricRegistry::new(): an empty map, nobody inside.
RegIdle ==
    /\ regMap = "map0"
    /\ mapHeap = [a \in Addrs |-> EmptyContent]
    /\ lockHolder = {}
    /\ rpc = [t \in RegThreads |-> "idle"]
    /\ rframe = [t \in RegThreads |-> RegIdleFrame]
    /\ snapshots = [s \in Slots |-> NoSnapshot]
    /\ nextInst = 1
    /\ nGet = 0
    /\ firstEntry = EmptyContent
    /\ origEntry = EmptyContent
    /\ lastRemove = [id |-> None, result |-> NoEntry]

\* Every thread's MDC starts as Snapshot::new(): two handles on EMPTY.
MdcIdle ==
    /\ snaps = [o \in Owners |-> IF o[1] = "mdc" THEN NewSnap ELSE NoSnap]
    /\ slotKind = [h \in Locals |-> "free"]
    /\ arcHeap = [a \in MapAddrs |-> EmptyMap]
    /\ expect = [o \in Owners |-> NoContent]
    /\ lastScopeDrop = NoScopeDrop

\* No Bind future exists.
BindIdle ==
    /\ binds = [b \in Binds |-> NoBind]
    /\ lastPoll = NoPoll

\* Counter::new(): the default AtomicI64, 0.
CounterIdle ==
    /\ counter = [value |-> I64Zero, panicked |-> FALSE]
    /\ counterLog = <<>>
    /\ lastCount = NoCount

\* Filter::builder() has just returned.
FilterIdle ==
    /\ fbuilder = NewBuilder
    /\ fquery = NoQuery
    /\ fmax = NoMax

\* No call on logger() has been made.
SinkIdle ==
    /\ sinkHist = [calls |-> 0, logCalls |-> 0, flushCalls |-> 0, flushed |-> 0]

\* No MetricId built, an empty registry; nobody has got an instrument.
MidIdle ==
    /\ mids = [h \in MidHolders |-> NoMetricId]
    /\ midReg = <<>>
    /\ midGot = [h \in MidHolders |-> 0]

\* Nothing has been parsed.
ParseIdle == lastParse = NoParse

\* Histogram::new(reservoir): count 0, nothing passed to the reservoir.
HistIdle ==
    /\ histogram = [count |-> 0, reservoir |-> <<>>]
    /\ hframe = [t \in HistThreads |-> HIdleFrame]
    /\ hCalls = [started |-> 0, done |-> 0, values |-> <<>>]

\* Timer::new_with(reservoir, clock): nothing marked, nothing recorded, no guard.
TimerIdle ==
    /\ timer = [meter |-> [counted |-> 0, uncounted |-> 0], reservoir |-> <<>>, clock |-> 0]
    /\ guards = [g \in TimeGuards |-> [state |-> "none", start |-> 0]]
    /\ timerLog = [updates |-> 0, drops |-> 0, durations |-> <<>>]

\* Nothing has been forwarded.
BridgeIdle == bridged = NoBridged

\* The thread's MDC is empty and no record has been rendered.
SvcIdle ==
    /\ svcMdc = [safe |-> SvcEmptyMap, unsafe_ |-> SvcEmptyMap]
    /\ svcOut = NoSvcOut

\* The maps are empty; no insert has been called.
InsIdle ==
    /\ insMaps = InsEmpty
    /\ lastInsert = NoInsert

\* The MDC and the caller's Snapshot are empty; neither set nor swap has run.
SsIdle ==
    /\ ssMdc = NoContent
    /\ ssVar = NoContent
    /\ lastSet = NoSet

\* A Meter just created, at its start_time, with no call in flight.
MeterIdle ==
    /\ mnow = 0
    /\ meter = NewMeter
    /\ mpc = [t \in MeterThreads |-> "idle"]
    /\ mframe = [t \in MeterThreads |-> MIdleFrame]
    /\ meterLog = [calls |-> 0, marked |-> 0, rolls |-> <<>>]

CbIdle ==
    /\ outerCall = [t \in RegThreads |-> RegIdleFrame]

ShIdle ==
    /\ instVal = [i \in InstIds |-> 0]

EnvIdle ==
    /\ envLog = [maxSet |-> FALSE, last |-> NoInit]

\* A run creates only the objects its specification is about: the variables of
\* a subsystem whose objects are never created hold no value.
NotCreated == <<>>

RegNotCreated ==
    /\ regMap = NotCreated
    /\ mapHeap = NotCreated
    /\ lockHolder = NotCreated
    /\ rpc = NotCreated
    /\ rframe = NotCreated
    /\ snapshots = NotCreated
    /\ nextInst = NotCreated
    /\ nGet = NotCreated
    /\ firstEntry = NotCreated
    /\ origEntry = NotCreated
    /\ lastRemove = NotCreated

MdcNotCreated ==
    /\ snaps = NotCreated
    /\ slotKind = NotCreated
    /\ arcHeap = NotCreated
    /\ expect = NotCreated
    /\ lastScopeDrop = NotCreated

BindNotCreated ==
    /\ binds = NotCreated
    /\ lastPoll = NotCreated

CounterNotCreated ==
    /\ counter = NotCreated
    /\ counterLog = NotCreated
    /\ lastCount = NotCreated

FilterNotCreated ==
    /\ fbuilder = NotCreated
    /\ fquery = NotCreated
    /\ fmax = NotCreated

SinkNotCreated ==
    /\ sinkHist = NotCreated

MidNotCreated ==
    /\ mids = NotCreated
    /\ midReg = NotCreated
    /\ midGot = NotCreated

ParseNotCreated ==
    /\ lastParse = NotCreated

HistNotCreated ==
    /\ histogram = NotCreated
    /\ hframe = NotCreated
    /\ hCalls = NotCreated

TimerNotCreated ==
    /\ timer = NotCreated
    /\ guards = NotCreated
    /\ timerLog = NotCreated

BridgeNotCreated ==
    /\ bridged = NotCreated

SvcNotCreated ==
    /\ svcMdc = NotCreated
    /\ svcOut = NotCreated

InsNotCreated ==
    /\ insMaps = NotCreated
    /\ lastInsert = NotCreated

SsNotCreated ==
    /\ ssMdc = NotCreated
    /\ ssVar = NotCreated
    /\ lastSet = NotCreated

MeterNotCreated ==
    /\ mnow = NotCreated
    /\ meter = NotCreated
    /\ mpc = NotCreated
    /\ mframe = NotCreated
    /\ meterLog = NotCreated

CbNotCreated ==
    /\ outerCall = NotCreated

ShNotCreated ==
    /\ instVal = NotCreated

EnvNotCreated ==
    /\ envLog = NotCreated

\* The subsystems of `used` at rest, the others not created.
Subsystems(used) ==
    /\ IF "env" \in used THEN EnvIdle ELSE EnvNotCreated
    /\ IF "sh" \in used THEN ShIdle ELSE ShNotCreated
    /\ IF "cb" \in used THEN CbIdle ELSE CbNotCreated
    /\ IF "meter" \in used THEN MeterIdle ELSE MeterNotCreated
    /\ IF "reg" \in used THEN RegIdle ELSE RegNotCreated
    /\ IF "mdc" \in used THEN MdcIdle ELSE MdcNotCreated
    /\ IF "bind" \in used THEN BindIdle ELSE BindNotCreated
    /\ IF "counter" \in used THEN CounterIdle ELSE CounterNotCreated
    /\ IF "filter" \in used THEN FilterIdle ELSE FilterNotCreated
    /\ IF "sink" \in used THEN SinkIdle ELSE SinkNotCreated
    /\ IF "mid" \in used THEN MidIdle ELSE MidNotCreated
    /\ IF "parse" \in used THEN ParseIdle ELSE ParseNotCreated
    /\ IF "hist" \in used THEN HistIdle ELSE HistNotCreated
    /\ IF "timer" \in used THEN TimerIdle ELSE TimerNotCreated
    /\ IF "bridge" \in used THEN BridgeIdle ELSE BridgeNotCreated
    /\ IF "svc" \in used THEN SvcIdle ELSE SvcNotCreated
    /\ IF "ins" \in used THEN InsIdle ELSE InsNotCreated
    /\ IF "ss" \in used THEN SsIdle ELSE SsNotCreated

\* No logger installed, the gate at 0 (Off), no call in flight.
InitWith(used) ==
    /\ LOGGER = [state |-> "incomplete", value |-> None]
    /\ MAX_LOG_LEVEL_FILTER = 0
    /\ LogIdle
    /\ Subsystems(used)

\* The process starts with no logger installed and the gate at 0 (Off).
Init == InitWith({})

\* Installation: any thread may call set_logger or set_boxed_logger.
Next ==
    \E t \in Threads :
        \/ SetStart(t)
        \/ OnceEnter(t)
        \/ OnceStore(t)
        \/ SetReturn(t)
        \/ Finish(t)

Spec == Init /\ [][Next]_vars

\* Emission: the call sites run with whatever logger the process has installed
\* (none, or any sink), while any thread may move the gate.
InitEmit ==
    /\ LOGGER \in {[state |-> "incomplete", value |-> None]}
                 \cup {[state |-> "complete", value |-> s] : s \in Sinks}
    /\ MAX_LOG_LEVEL_FILTER = 0
    /\ LogIdle
    /\ Subsystems({})

NextEmit ==
    \/ SetMaxLevel
    \/ \E t \in Emitters :
          \/ LogStart(t)
          \/ LogGuard(t)
          \/ LogParams(t)
          \/ LogCall(t)
          \/ Finish(t)

SpecEmit == InitEmit /\ [][NextEmit]_vars

\* The registry, used by several threads.
InitRegistry == InitWith({"reg"})

NextRegistry ==
    \/ \E t \in RegThreads :
          \/ RegCall(t)
          \/ RegAcquire(t)
          \/ RegFactory(t)
          \/ RegInsert(t)
          \/ RegFinish(t)
    \/ RegRemove
    \/ RegMetrics
    \/ DropMetrics

SpecRegistry == InitRegistry /\ [][NextRegistry]_vars

\* The MDC of a thread, the snapshots it holds and its Scope guards.
InitMdc == InitWith({"mdc"})

NextMdc ==
    \/ \E t \in MdcThreads :
          \/ MdcInsert(t)
          \/ MdcRemove(t)
          \/ MdcClear(t)
          \/ MdcSnapshot(t)
          \/ MdcSet(t)
          \/ MdcSwap(t)
          \/ MdcScope(t)
          \/ ScopeDrop(t)
    \/ HeldMutate
    \/ HeldDrop

SpecMdc == InitMdc /\ [][NextMdc]_vars

\* A task wrapped by bind(), polled and dropped on a thread that runs other
\* code between the resumptions.
InitBind == InitWith({"mdc", "bind"})

NextBind ==
    \E t \in MdcThreads :
        \/ BindCreate(t)
        \/ OtherTaskWrite(t)
        \/ PollStart(t)
        \/ InnerWrite(t)
        \/ PollEnd(t)
        \/ BindDropStart(t)
        \/ BindDropEnd(t)

SpecBind == InitBind /\ [][NextBind]_vars

\* One Counter, called from any thread: every call is one atomic step.
InitCounter == InitWith({"counter"})

NextCounter ==
    \/ CounterAdd
    \/ CounterSub
    \/ CounterInc
    \/ CounterDec
    \/ CounterClear
    \/ CounterCount

SpecCounter == InitCounter /\ [][NextCounter]_vars

\* A Filter is configured, built and asked.
InitFilter == InitWith({"filter"})

NextFilter ==
    \/ BuilderLevel
    \/ BuilderTargetLevel
    \/ BuilderBuild
    \/ FilterEnabled
    \/ FilterMaxLevel

SpecFilter == InitFilter /\ [][NextFilter]_vars

\* enabled! sites and direct calls on logger(), with no logger installed or
\* with one of the sinks installed, while the gate is moved.
InitSink ==
    /\ LOGGER \in {[state |-> "incomplete", value |-> None]}
                 \cup {[state |-> "complete", value |-> s] : s \in Sinks}
    /\ MAX_LOG_LEVEL_FILTER = 0
    /\ LogIdle
    /\ Subsystems({"sink"})

NextSink ==
    \/ SinkSetMaxLevel
    \/ \E t \in Sites :
          \/ EnabledStart(t)
          \/ EnabledGate(t)
          \/ EnabledAsk(t)
          \/ EnabledFinish(t)
          \/ AccessorLog(t)
          \/ AccessorFlush(t)

SpecSink == InitSink /\ [][NextSink]_vars

\* Callers build MetricIds and ask one registry for the counter under each.
InitMetricId == InitWith({"mid"})

NextMetricId ==
    \E h \in MidHolders :
        \/ MidNew(h)
        \/ MidWithTag(h)
        \/ MidCounter(h)

SpecMetricId == InitMetricId /\ [][NextMetricId]_vars

\* Strings are parsed as Level and as LevelFilter.
InitParse == InitWith({"parse"})

NextParse ==
    \/ ParseLevel
    \/ ParseLevelFilter

SpecParse == InitParse /\ [][NextParse]_vars

\* Threads update one Histogram.
InitHistogram == InitWith({"hist"})

NextHistogram ==
    \E t \in HistThreads :
        \/ HistUpdateCall(t)
        \/ HistFetchAdd(t)
        \/ HistReservoirUpdate(t)

SpecHistogram == InitHistogram /\ [][NextHistogram]_vars

\* One Timer: direct updates, guards taken and dropped, under a moving clock.
InitTimer == InitWith({"timer"})

NextTimer ==
    \/ TimerUpdate
    \/ ClockAdvance
    \/ \E g \in TimeGuards :
          \/ TimerTime(g)
          \/ TimeDrop(g)

SpecTimer == InitTimer /\ [][NextTimer]_vars

\* Records of the log crate are forwarded by BridgedLogger.
InitBridge == InitWith({"bridge"})

NextBridge == BridgeLog

SpecBridge == InitBridge /\ [][NextBridge]_vars

\* Code fills the MDC of a thread; records logged on it are rendered.
InitService == InitWith({"svc"})

NextService ==
    \/ SvcInsertSafe
    \/ SvcInsertUnsafe
    \/ SvcFromRecord

SpecService == InitService /\ [][NextService]_vars

\* Values, some of which do not serialize, are inserted into the maps.
InitInsert == InitWith({"ins"})

NextInsert == InsInsert

SpecInsert == InitInsert /\ [][NextInsert]_vars

\* A thread changes its MDC and a Snapshot it holds, and calls set and swap.
InitSetSwap == InitWith({"ss"})

NextSetSwap ==
    \/ SsMdcWrite
    \/ SsVarWrite
    \/ SsSet
    \/ SsSwap

SpecSetSwap == InitSetSwap /\ [][NextSetSwap]_vars

\* Threads mark one Meter and read its count and its rates while time passes.
InitMeter == InitWith({"meter"})

NextMeter ==
    \/ MeterClockAdvance
    \/ \E t \in MeterThreads :
          \/ MeterCall(t)
          \/ TickLoad(t)
          \/ TickCas(t)
          \/ RollLock(t)
          \/ RollFinish(t)
          \/ MarkAdd(t)
          \/ RateRead(t)
          \/ CountLock(t)
          \/ CountLoad(t)

SpecMeter == InitMeter /\ [][NextMeter]_vars

\* The registry with factories that may call it: no remove, no snapshot.
InitFactory == InitWith({"reg", "cb"})

NextFactory ==
    \/ \E t \in RegThreads : RegCall(t)
    \/ \E t \in RegThreads : RegAcquire(t)
    \/ \E t \in RegThreads : RegFactory(t)
    \/ \E t \in RegThreads : FactoryCallsRegistry(t)
    \/ \E t \in RegThreads : RegInsert(t)
    \/ \E t \in RegThreads : RegFinish(t)

SpecFactory == InitFactory /\ [][NextFactory]_vars

\* The registry, one kept snapshot and updates of the instruments handed out.
\* Each thread makes one call and keeps the handle it got.
InitShared == InitWith({"reg", "sh"})

NextShared ==
    \/ \E t \in RegThreads : RegCall(t)
    \/ \E t \in RegThreads : RegAcquire(t)
    \/ \E t \in RegThreads : RegFactory(t)
    \/ \E t \in RegThreads : RegInsert(t)
    \/ RegRemove
    \/ RegMetrics
    \/ InstrumentAdd

SpecShared == InitShared /\ [][NextShared]_vars

\* A process from its start: a logger may have been installed already, the max
\* level has its initial value; threads call try_init and set_max_level.
InitEnv ==
    /\ LOGGER \in {[state |-> "incomplete", value |-> None]}
                 \cup {[state |-> "complete", value |-> s] : s \in Sinks}
    /\ MAX_LOG_LEVEL_FILTER = MaxLevelAtStart
    /\ LogIdle
    /\ Subsystems({"sink", "env"})

NextEnv ==
    \/ AppSetMaxLevel
    \/ \E t \in InitCallers :
          \/ TryInitStart(t)
          \/ OnceEnter(t)
          \/ OnceStore(t)
          \/ SetReturn(t)
          \/ TryInitReturn(t)

SpecEnv == InitEnv /\ [][NextEnv]_vars

\* The same process, with the call sites of log! and enabled! and with
\* set_max_level called by the application.
NextOff ==
    \/ AppSetMaxLevel
    \/ \E t \in Emitters :
          \/ LogStart(t)
          \/ LogGuard(t)
          \/ LogParams(t)
          \/ LogCall(t)
          \/ Finish(t)
    \/ \E t \in Sites :
          \/ EnabledStart(t)
          \/ EnabledGate(t)
          \/ EnabledAsk(t)

SpecOff == InitEnv /\ [][NextOff]_vars

-----------------------------------------------------------------------------
(* Logger installation and the emission fast path: the properties.         *)

SetCallReturned(t) == pc[t] = "returned" /\ frame[t].op \in {"set_logger", "set_boxed_logger"}
LogSiteReturned(t) == pc[t] = "returned" /\ frame[t].op = "log"

\* C1: once a set_logger / set_boxed_logger call has succeeded, every call to
\* either function that starts afterwards returns SetLoggerError, and logger()
\* is, and stays, the sink of the first successful call.
C1_InstallOnce ==
    /\ Len(okCalls) >= 1 => logger = okCalls[1]
    /\ \A t \in Threads :
          SetCallReturned(t) /\ frame[t].sawInstalled => frame[t].result = "Err"

\* A call that started after the installation was refused, and the installed
\* sink is still the first one, not the one this call passed.
C1_Witness ==
    \E t \in Threads :
        /\ SetCallReturned(t)
        /\ frame[t].sawInstalled
        /\ frame[t].result = "Err"
        /\ Len(okCalls) = 1
        /\ frame[t].arg # okCalls[1]
        /\ logger = okCalls[1]

\* C2: however the set_logger and set_boxed_logger calls interleave, at most one
\* returns Ok; once all the calls made have returned, exactly one has returned
\* Ok, all the others SetLoggerError, and logger() is the sink passed to the
\* call that returned Ok.
C2_ExactlyOneInstall ==
    /\ Len(okCalls) <= 1
    /\ (nSet >= 1 /\ \A t \in Threads : pc[t] \in {"idle", "returned"})
          => /\ Len(okCalls) = 1
             /\ nErr = nSet - 1
             /\ logger = okCalls[1]

\* Two calls of different kinds with different sinks raced (neither saw a
\* logger installed when it started); one won and one lost.
C2_Witness ==
    \E t1, t2 \in Threads :
        /\ SetCallReturned(t1) /\ SetCallReturned(t2)
        /\ ~frame[t1].sawInstalled /\ ~frame[t2].sawInstalled
        /\ frame[t1].op = "set_logger" /\ frame[t2].op = "set_boxed_logger"
        /\ frame[t1].arg # frame[t2].arg
        /\ frame[t1].result = "Err" /\ frame[t2].result = "Ok"
        /\ logger = frame[t2].arg

\* The ordinal values the specification gives: OFF=0 < FATAL=1 < ... < TRACE=6.
OrdinalOrder == <<"Off", "Fatal", "Error", "Warn", "Info", "Debug", "Trace">>
Ordinal(x) == (CHOOSE i \in 1..Len(OrdinalOrder) : OrdinalOrder[i] = x) - 1

\* C3: a call site of level L that read max_level() = F has handed exactly one
\* Record to logger().log when L <= F in ordinal value and none otherwise; with
\* F = OFF it hands none, whatever L.
C3_GateAdmitsIffLevelLeFilter ==
    \A t \in Emitters :
        LogSiteReturned(t) =>
            /\ frame[t].loaded \in LevelFilter
            /\ Ordinal(frame[t].level) <= Ordinal(frame[t].loaded) => frame[t].handed = 1
            /\ Ordinal(frame[t].level) > Ordinal(frame[t].loaded) => frame[t].handed = 0
            /\ frame[t].loaded = "Off" => frame[t].handed = 0

\* The boundary case: a site whose level equals the filter handed its record
\* to an installed sink, which received it.
C3_Witness ==
    \E t \in Emitters :
        /\ LogSiteReturned(t)
        /\ frame[t].level = "Warn" /\ frame[t].loaded = "Warn"
        /\ frame[t].handed = 1
        /\ logger \in Sinks
        /\ Len(RECORDS) >= 1
        /\ RECORDS[Len(RECORDS)].level = "Warn"

\* C4: at a call site no parameter expression is evaluated before the guard, and
\* when the guard fails none of the safe, unsafe or error expressions is
\* evaluated and the sink is not called.
C4_GuardBeforeParams ==
    \A t \in Emitters :
        frame[t].op = "log" =>
            /\ frame[t].guard = "pending" => frame[t].evaluated = {} /\ frame[t].handed = 0
            /\ frame[t].guard = "failed" => frame[t].evaluated = {} /\ frame[t].handed = 0
            /\ frame[t].evaluated # {} => frame[t].guard = "passed"
            /\ (frame[t].guard = "failed" /\ nLog = 1) => RECORDS = <<>>

\* A site with all three parameter blocks failed the guard and returned with
\* none of them evaluated.
C4_Witness ==
    \E t \in Emitters :
        /\ LogSiteReturned(t)
        /\ frame[t].shape = ParamKinds
        /\ frame[t].guard = "failed"
        /\ frame[t].evaluated = {}
        /\ frame[t].handed = 0
        /\ logger \in Sinks

-----------------------------------------------------------------------------
(* The metric registry: the properties.                                    *)

GetReturned(t) == rpc[t] = "returned" /\ rframe[t].op = "get"

\* C5: an access that finds an entry of the requested kind under the id returns
\* that instance, without invoking its factory and without changing the
\* registry's contents; an access that finds the id absent invokes its factory;
\* and of the accesses for one id that have returned an instrument, with no
\* removal of the id in between, all return the same instance and at most one
\* has invoked its factory.
C5_FirstWins ==
    /\ \A t \in RegThreads :
          GetReturned(t) =>
             /\ (rframe[t].found # NoEntry /\ rframe[t].found.kind = rframe[t].kind)
                   => /\ rframe[t].result = Returned(rframe[t].found.inst)
                      /\ ~rframe[t].invoked
                      /\ ~rframe[t].changed
             /\ rframe[t].found = NoEntry
                   => /\ rframe[t].result.tag = "ret"
                      /\ rframe[t].kind # "Gauge" => rframe[t].invoked
    /\ \A t1, t2 \in RegThreads :
          (/\ t1 # t2
           /\ GetReturned(t1) /\ GetReturned(t2)
           /\ rframe[t1].id = rframe[t2].id
           /\ rframe[t1].result.tag = "ret" /\ rframe[t2].result.tag = "ret"
           /\ ~rframe[t1].removedSince /\ ~rframe[t2].removedSince)
          => /\ rframe[t1].result.inst = rframe[t2].result.inst
             /\ ~(rframe[t1].invoked /\ rframe[t2].invoked)

\* Two threads asked for the same absent id and kind: one constructed the
\* instrument, the other got that instance and its factory was not invoked.
C5_Witness ==
    \E t1, t2 \in RegThreads :
        /\ t1 # t2
        /\ GetReturned(t1) /\ GetReturned(t2)
        /\ rframe[t1].id = rframe[t2].id
        /\ rframe[t1].kind = "Timer" /\ rframe[t2].kind = "Timer"
        /\ rframe[t1].found = NoEntry /\ rframe[t1].invoked
        /\ rframe[t2].found = Entry("Timer", rframe[t1].result.inst)
        /\ ~rframe[t2].invoked
        /\ rframe[t2].result = rframe[t1].result

\* C6: an access that finds an entry of another kind under the id panics with
\* a message naming the id, without invoking the factory and without changing
\* the registry's contents, and it does not keep the lock.
C6_KindMismatchPanics ==
    \A t \in RegThreads :
        (GetReturned(t) /\ rframe[t].found # NoEntry /\ rframe[t].found.kind # rframe[t].kind)
        => /\ rframe[t].result.tag = "panic"
           /\ rframe[t].result.key = rframe[t].id
           /\ ~rframe[t].invoked
           /\ ~rframe[t].changed
           /\ t \notin lockHolder

\* timer(id) panicked on a counter; afterwards remove(id) took the lock and
\* ejected that same counter.
C6_Witness ==
    \E t \in RegThreads :
        /\ GetReturned(t)
        /\ rframe[t].kind = "Timer"
        /\ rframe[t].found.kind = "Counter"
        /\ rframe[t].result = Panicked("Timer", rframe[t].id)
        /\ rframe[t].removedSince
        /\ lastRemove = [id |-> rframe[t].id, result |-> rframe[t].found]
        /\ RegContent[rframe[t].id] = NoEntry

\* C7: the entries a Metrics snapshot iterates over are the entries the
\* registry held when metrics() returned it, whatever is registered or removed
\* afterwards.
C7_SnapshotStable ==
    \A s \in Slots :
        snapshots[s] # NoSnapshot => mapHeap[snapshots[s].ptr] = snapshots[s].taken

\* Since the snapshot was taken one of its entries was removed from the
\* registry and another id was registered.
C7_Witness ==
    \E s \in Slots :
        /\ snapshots[s] # NoSnapshot
        /\ \E id1, id2 \in MetricIds :
              /\ snapshots[s].taken[id1] # NoEntry /\ RegContent[id1] = NoEntry
              /\ snapshots[s].taken[id2] = NoEntry /\ RegContent[id2] # NoEntry
        /\ mapHeap[snapshots[s].ptr] = snapshots[s].taken

\* C8 as stated: whatever registry operations happen, every request for an id
\* returns the first instrument ever installed under it, or panics if the
\* requested kind differs from that instrument's kind.
C8_NeverChangesKind ==
    \A t \in RegThreads :
        (GetReturned(t) /\ firstEntry[rframe[t].id] # NoEntry)
        => IF rframe[t].kind = firstEntry[rframe[t].id].kind
           THEN rframe[t].result = Returned(firstEntry[rframe[t].id].inst)
           ELSE rframe[t].result.tag = "panic"

\* C8 amended: an entry stays as installed until remove(id) ejects it; every
\* request for the id with no removal since returns the instrument installed
\* since the last removal, or panics if the requested kind differs.
C8_NeverChangesKindUntilRemoved ==
    /\ \A id \in MetricIds : RegContent[id] = origEntry[id]
    /\ \A t \in RegThreads :
          (GetReturned(t) /\ ~rframe[t].removedSince)
          => /\ origEntry[rframe[t].id] # NoEntry
             /\ IF rframe[t].kind = origEntry[rframe[t].id].kind
                THEN rframe[t].result = Returned(origEntry[rframe[t].id].inst)
                ELSE rframe[t].result.tag = "panic"

\* After a removal the id was installed again with another kind, and the
\* request got the new instrument.
C8_Witness ==
    \E t \in RegThreads :
        /\ GetReturned(t)
        /\ ~rframe[t].removedSince
        /\ firstEntry[rframe[t].id] # NoEntry
        /\ firstEntry[rframe[t].id].kind # rframe[t].kind
        /\ rframe[t].result = Returned(origEntry[rframe[t].id].inst)
        /\ origEntry[rframe[t].id].kind = rframe[t].kind

\* C9: a Snapshot taken with snapshot() and the MDC are not connected. Whatever
\* insert_safe, insert_unsafe, remove_safe, remove_unsafe, clear or set does to
\* the thread's MDC afterwards, the snapshot holds what it held when it was
\* taken (a key re-inserted with another value keeps its first value in the
\* snapshot), and whatever the caller does to the snapshot, the MDC holds what
\* the operations on the MDC itself put there.
C9_SnapshotIndependent ==
    /\ \A t \in MdcThreads : ContentOf(MdcOwner(t)) = expect[MdcOwner(t)]
    /\ \A h \in Locals :
          slotKind[h] # "free" => ContentOf(SlotOwner(h)) = expect[SlotOwner(h)]

\* A snapshot, untouched by the caller since it was taken, still holds k with
\* its first value after k was re-inserted into the MDC with another one.
C9_Witness ==
    \E h \in Locals, t \in MdcThreads :
        /\ slotKind[h] = "snapshot"
        /\ ContentOf(SlotOwner(h))["safe"]["k"] = "v1"
        /\ ContentOf(MdcOwner(t))["safe"]["k"] = "v2"

\* C10: dropping the guard returned by scope() leaves the thread's MDC with
\* exactly what it held when scope() was called, whatever was inserted,
\* removed or cleared in between.
C10_ScopeRestores ==
    lastScopeDrop.dropped =>
        ContentOf(MdcOwner(lastScopeDrop.by)) = lastScopeDrop.saved

\* scope(); insert(k, v); drop(guard) has just left the MDC without k.
C10_Witness ==
    /\ lastScopeDrop.dropped
    /\ lastScopeDrop.saved["safe"]["k"] = Absent
    /\ lastScopeDrop.before["safe"]["k"] # Absent
    /\ ContentOf(MdcOwner(lastScopeDrop.by))["safe"]["k"] = Absent

\* The Bind is at the first instruction of its inner future's poll.
InnerEntered(b) == binds[b].pc = "entered"

\* C11: at the first poll of a Bind the inner future finds the MDC of the
\* polling thread holding what the MDC held when bind() was called, whatever
\* the thread's own MDC held just before the poll.
C11_FirstPollSeesBoundSnapshot ==
    \A b \in Binds :
        (InnerEntered(b) /\ binds[b].polls = 0)
        => ContentOf(MdcOwner(binds[b].by)) = binds[b].ctx

\* C12: when a poll of a Bind has returned, Pending or Ready, the MDC of the
\* polling thread holds exactly what it held just before the poll.
C12_PollLeavesThreadMdc ==
    lastPoll.kind = "poll" => ContentOf(MdcOwner(lastPoll.by)) = lastPoll.pre

\* C13: while a Bind is dropped its inner future is dropped with the thread's
\* MDC holding the task's context, and once the drop has returned the thread's
\* MDC holds what it held before.
C13_DropUnderBoundSnapshot ==
    /\ \A b \in Binds :
          binds[b].pc = "dropping" => ContentOf(MdcOwner(binds[b].by)) = binds[b].ctx
    /\ lastPoll.kind = "drop" => ContentOf(MdcOwner(lastPoll.by)) = lastPoll.pre

\* C14: at a later poll of a Bind the inner future finds the MDC as it left it
\* at the end of its previous poll.
C14_UpdatesPropagate ==
    \A b \in Binds :
        (InnerEntered(b) /\ binds[b].polls > 0)
        => ContentOf(MdcOwner(binds[b].by)) = binds[b].ctx

\* The sum, modulo 2^64, of the amounts the calls of kind op in the log gave.
RECURSIVE SumOf(_, _)
SumOf(log, op) ==
    IF log = <<>> THEN I64Zero
    ELSE LET rest == SumOf(Tail(log), op)
         IN IF Head(log).op = op THEN WrappingAdd(Head(log).n, rest) ELSE rest

\* C15: no call panics, and count() returns the sum of the amounts added
\* since the last clear() minus the sum of the amounts subtracted, modulo 2^64
\* read as an i64.
C15_CounterWraps ==
    /\ ~counter.panicked
    /\ lastCount.returned
          => lastCount.value = WrappingSub(SumOf(counterLog, "add"), SumOf(counterLog, "sub"))

\* Counter::new(); add(i64::MAX); add(1); count() has returned i64::MIN.
C15_Witness ==
    /\ counterLog = <<[op |-> "add", n |-> I64Max], [op |-> "add", n |-> I64One]>>
    /\ lastCount.returned
    /\ lastCount.value = I64Min

\* The '::'-separated segments of the targets asked about, written out.
SegmentsOf(target) ==
    CASE target = TargetFoo -> <<<<"f">>>>
      [] target = TargetBar -> <<<<"b">>>>
      [] target = TargetFooBar -> <<<<"f">>, <<"b">>>>
      [] target = TargetFooBuz -> <<<<"f">>, <<"z">>>>
      [] target = TargetFooBarBuz -> <<<<"f">>, <<"b">>, <<"z">>>>
      [] target = TargetFooColonBar -> <<<<"f", Colon, "b">>>>

\* The level stored at the closest ancestor of the target: under the longest
\* stored prefix of its segments, the root (the empty prefix) included.
ClosestAncestorLevel(trie, target) ==
    LET segs == SegmentsOf(target)
        p == CHOOSE p \in DOMAIN trie :
                /\ IsPrefix(p, segs)
                /\ \A q \in DOMAIN trie : IsPrefix(q, segs) => Len(q) <= Len(p)
    IN trie[p]

\* C16: Filter::enabled returns true iff the level is <= the LevelFilter
\* stored at the closest ancestor of the target; the root holds Error unless
\* Builder::level set it, and a stored Off rejects every level.
C16_ClosestAncestorDecides ==
    /\ fbuilder.stage = "built" => fbuilder.trie[<<>>] = fbuilder.root
    /\ fquery.asked =>
          /\ fquery.result <=>
                LevelAsUsize(fquery.level)
                    <= LevelFilterAsUsize(ClosestAncestorLevel(fbuilder.trie, fquery.target))
          /\ ClosestAncestorLevel(fbuilder.trie, fquery.target) = "Off" => ~fquery.result

\* With foo at Debug and foo::bar at Off, Fatal is rejected for foo::bar::buz
\* and Info is admitted for foo::buz.
C16_Witness ==
    /\ fbuilder.stage = "built"
    /\ fbuilder.trie[<<>>] = "Error"
    /\ <<<<"f">>>> \in DOMAIN fbuilder.trie
    /\ <<<<"f">>, <<"b">>>> \in DOMAIN fbuilder.trie
    /\ fbuilder.trie[<<<<"f">>>>] = "Debug"
    /\ fbuilder.trie[<<<<"f">>, <<"b">>>>] = "Off"
    /\ fquery.asked
    /\ \/ fquery.target = TargetFooBarBuz /\ fquery.level = "Fatal" /\ ~fquery.result
       \/ fquery.target = TargetFooBuz /\ fquery.level = "Info" /\ fquery.result

\* C17: whatever Filter::enabled admits is at most Filter::max_level(), the
\* maximum of the root level and the per-target levels, so the gate set to
\* max_level() lets through every record the filter admits.
C17_MaxLevelCoversEnabled ==
    (fmax.asked /\ fbuilder.stage = "built") =>
        /\ \A k \in DOMAIN fbuilder.trie :
              LevelFilterAsUsize(fbuilder.trie[k]) <= LevelFilterAsUsize(fmax.value)
        /\ \E k \in DOMAIN fbuilder.trie : fbuilder.trie[k] = fmax.value
        /\ (fquery.asked /\ fquery.result) =>
              LevelAsUsize(fquery.level) <= LevelFilterAsUsize(fmax.value)

\* A record above the root level is admitted through a per-target level that
\* max_level() returned.
C17_Witness ==
    /\ fmax.asked
    /\ fquery.asked
    /\ fquery.result
    /\ fbuilder.trie[<<>>] = "Error"
    /\ fmax.value = "Debug"
    /\ fquery.level = "Debug"

\* An enabled! site has produced its value.
EnabledReturned(t) == pc[t] = "returned" /\ frame[t].op = "enabled"

\* C18: while no logger is installed, logger() is a no-op sink: its enabled
\* returns false for every metadata, its log records nothing and its flush
\* flushes nothing.
C18_NopLoggerBeforeInstall ==
    LOGGER.state # "complete" =>
        /\ logger = NopLogger
        /\ RECORDS = <<>>
        /\ sinkHist.flushed = 0
        /\ \A t \in Sites : EnabledReturned(t) => frame[t].result = "false"

\* With no logger installed, log and flush were called on logger() and an
\* enabled! site that passed the gate consulted the sink and got false.
C18_Witness ==
    /\ LOGGER.state = "incomplete"
    /\ sinkHist.logCalls > 0
    /\ sinkHist.flushCalls > 0
    /\ \E t \in Sites :
          /\ EnabledReturned(t)
          /\ Len(frame[t].asked) = 1
          /\ frame[t].asked[1].sink = NopLogger
          /\ frame[t].result = "false"

\* C19: enabled!(L) is true iff L <= max_level(), as read by the site, and the
\* installed sink's enabled says true for Metadata{level: L, target: the
\* module path}; when L > max_level() the sink is not consulted.
C19_EnabledGateThenSink ==
    \A t \in Sites :
        EnabledReturned(t) =>
            LET passed == LevelAsUsize(frame[t].level) <= LevelFilterAsUsize(frame[t].loaded)
            IN /\ passed =>
                    /\ frame[t].asked = <<[sink |-> logger, level |-> frame[t].level,
                                           target |-> ModulePath]>>
                    /\ frame[t].result = "true"
                          <=> SinkEnabled(logger, frame[t].level, ModulePath)
               /\ ~passed => frame[t].asked = <<>> /\ frame[t].result = "false"
               /\ frame[t].result \in {"true", "false"}

\* One site was refused by the gate without the sink being asked; the
\* level-filtering sink is installed.
C19_Witness ==
    /\ logger = "sinkB"
    /\ \E t \in Sites :
          /\ EnabledReturned(t)
          /\ frame[t].level = "Info"
          /\ frame[t].loaded = "Warn"
          /\ frame[t].asked = <<>>
          /\ frame[t].result = "false"

\* A step of remove: no call changes its position and no Metrics value is
\* taken or dropped.
RemoveStep == rpc' = rpc /\ snapshots' = snapshots

\* The access of t looks up an id that was removed and not installed since.
FirstLookupAfterRemove(t) ==
    /\ rpc[t] = "calling" /\ rpc'[t] # "calling"
    /\ lastRemove.id = rframe[t].id
    /\ origEntry[rframe[t].id] = NoEntry

\* The access of t installs under an id that was removed and not installed since.
FirstInstallAfterRemove(t) ==
    /\ rpc[t] = "insert" /\ rpc'[t] = "returned"
    /\ lastRemove.id = rframe[t].id
    /\ origEntry[rframe[t].id] = NoEntry

\* C20: remove(id) returns the entry stored under id (None if absent) and
\* leaves every other entry unchanged; afterwards id is absent, so the next
\* access for id, with any kind, runs its factory (gauge: takes the value it
\* was passed) and installs and returns a new instrument, distinct from the
\* removed one.
C20_RemoveEjects ==
    [][/\ RemoveStep =>
             \E id \in MetricIds :
                 /\ lastRemove' = [id |-> id, result |-> RegContent[id]]
                 /\ RegContent'[id] = NoEntry
                 /\ \A other \in MetricIds \ {id} : RegContent'[other] = RegContent[other]
       /\ \A t \in RegThreads :
             /\ FirstLookupAfterRemove(t) =>
                   /\ rframe'[t].found = NoEntry
                   /\ rpc'[t] = IF rframe[t].kind = "Gauge" THEN "insert" ELSE "factory"
             /\ FirstInstallAfterRemove(t) =>
                   /\ rframe[t].kind # "Gauge" => rframe[t].invoked
                   /\ rframe'[t].result.tag = "ret"
                   /\ rframe'[t].result.inst # lastRemove.result.inst
                   /\ rframe'[t].result.inst \notin
                         {RegContent[i].inst : i \in MetricIds}
                   /\ RegContent'[rframe[t].id] =
                         Entry(rframe[t].kind, rframe'[t].result.inst)
      ]_vars

\* remove(id) ejected a counter; the next access asked for a timer under the
\* same id, ran its factory and got a new instrument, which is now stored.
C20_Witness ==
    \E t \in RegThreads :
        /\ GetReturned(t)
        /\ lastRemove.id = rframe[t].id
        /\ lastRemove.result # NoEntry
        /\ lastRemove.result.kind = "Counter"
        /\ rframe[t].kind = "Timer"
        /\ rframe[t].found = NoEntry
        /\ rframe[t].invoked
        /\ ~rframe[t].removedSince
        /\ rframe[t].result.tag = "ret"
        /\ rframe[t].result.inst # lastRemove.result.inst
        /\ RegContent[rframe[t].id] = Entry("Timer", rframe[t].result.inst)

-----------------------------------------------------------------------------
(* MetricId: the properties.                                               *)

\* The tags a sequence of with_tag calls leaves: for each key, the value of
\* the last call that named it.
TagSetOf(hist) ==
    {<<k, v>> \in TagKeys \X TagValues :
        \E i \in 1..Len(hist) :
            /\ hist[i] = <<k, v>>
            /\ \A j \in (i + 1)..Len(hist) : hist[j][1] # k}

SameMetric(a, b) == a.name = b.name /\ TagSetOf(a.hist) = TagSetOf(b.hist)

\* C21: two ids with the same name and the same tag set are equal and address
\* the same registry entry, whatever the order of the with_tag calls; ids
\* that differ in name or in a tag key or value address distinct entries.
C21_StructuralIdEquality ==
    \A a, b \in MidHolders :
        (mids[a] # NoMetricId /\ mids[b] # NoMetricId) =>
            /\ MetricIdEq(mids[a], mids[b]) <=> SameMetric(mids[a], mids[b])
            /\ (midGot[a] # 0 /\ midGot[b] # 0) =>
                  (midGot[a] = midGot[b] <=> SameMetric(mids[a], mids[b]))

\* Two ids tagged with the same two tags in opposite orders got the same
\* counter, and the registry holds one entry.
C21_Witness ==
    /\ mids["x"].hist = <<<<"foo", "bar">>, <<"baz", "qux">>>>
    /\ mids["y"].hist = <<<<"baz", "qux">>, <<"foo", "bar">>>>
    /\ mids["x"].name = mids["y"].name
    /\ midGot["x"] # 0
    /\ midGot["x"] = midGot["y"]
    /\ Len(midReg) = 1

-----------------------------------------------------------------------------
(* Level parsing: the properties.                                          *)

\* The input with its ASCII lower-case letters turned to upper case.
AsciiUpper(s) == [i \in 1..Len(s) |-> IF s[i] >= 97 /\ s[i] <= 122 THEN s[i] - 32 ELSE s[i]]

\* The variant a name stands for: OFF, FATAL, ERROR, WARN, INFO, DEBUG, TRACE.
VariantNamed(u) ==
    CASE u = <<79, 70, 70>> -> "Off"
      [] u = <<70, 65, 84, 65, 76>> -> "Fatal"
      [] u = <<69, 82, 82, 79, 82>> -> "Error"
      [] u = <<87, 65, 82, 78>> -> "Warn"
      [] u = <<73, 78, 70, 79>> -> "Info"
      [] u = <<68, 69, 66, 85, 71>> -> "Debug"
      [] u = <<84, 82, 65, 67, 69>> -> "Trace"
      [] OTHER -> ParseErr

\* C22: parsing ignores ASCII case: every spelling of a name parses to the
\* value of the name. LevelFilter accepts exactly OFF, FATAL, ERROR, WARN,
\* INFO, DEBUG, TRACE, Level the same names except OFF, and every other
\* string gives the parse error.
C22_ParseIgnoresAsciiCase ==
    LET want == VariantNamed(AsciiUpper(lastParse.input))
    IN /\ lastParse.fn = "LevelFilter" => lastParse.result = want
       /\ lastParse.fn = "Level" =>
             lastParse.result = IF want = "Off" THEN ParseErr ELSE want

\* "wArN" was parsed as a Level and gave Warn.
C22_Witness ==
    /\ lastParse.fn = "Level"
    /\ lastParse.input = <<119, 65, 114, 78>>
    /\ lastParse.result = "Warn"

-----------------------------------------------------------------------------
(* Histogram: the properties.                                              *)

\* The update calls that have incremented the count and not yet returned.
HistPastCount == {t \in HistThreads : hframe[t].at = "reservoir"}

\* Histogram::count(): self.count.load(Ordering::Relaxed)
HistCount == histogram.count

\* C23: update(v) increments the count by one and then passes v to the
\* reservoir once: count() is the number of completed calls plus the calls
\* between their two steps, so n completed calls with none running give
\* count() = n; the reservoir has received the value of each completed call
\* once; and count() never decreases.
C23_CountsUpdates ==
    /\ [](/\ HistCount = hCalls.done + Cardinality(HistPastCount)
          /\ histogram.reservoir = hCalls.values
          /\ Len(histogram.reservoir) = hCalls.done
          /\ (\A t \in HistThreads : hframe[t].at = "idle") => HistCount = hCalls.started)
    /\ [][HistCount' >= HistCount]_vars

\* Three updates have completed, two of them interleaved; count() is 3.
C23_Witness ==
    /\ \A t \in HistThreads : hframe[t].at = "idle"
    /\ hCalls.done = 3
    /\ HistCount = 3
    /\ histogram.reservoir = <<15, 10, 15>>

-----------------------------------------------------------------------------
(* Timer: the properties.                                                  *)

\* The i64 x is the number of nanoseconds of the duration d.
IsNanosOf(x, d) == ~IsNegative(x) /\ x \o <<0, 0, 0, 0>> = d

\* Timer::count(): self.meter.count()
TimerCount == MeterCount(timer.meter)

\* C24: the drop of a guard performs exactly one update, with the duration
\* from the guard's creation to its drop on the clock; each update marks the
\* meter by 1 and adds its duration in nanoseconds to the reservoir, so
\* count() is the number of completed update calls plus the number of
\* dropped guards.
C24_TimerRecordsDurations ==
    /\ TimerCount = timerLog.updates + timerLog.drops
    /\ timerLog.drops = Cardinality({g \in TimeGuards : guards[g].state = "dropped"})
    /\ Len(timer.reservoir) = timerLog.updates + timerLog.drops
    /\ \A i \in 1..Len(timer.reservoir) :
          IsNanosOf(timer.reservoir[i], timerLog.durations[i])

-----------------------------------------------------------------------------
(* The log bridge: the properties.                                         *)

Forwarded == bridged # NoBridged

\* C25: a foreign record whose message is not a static string is forwarded
\* with an empty message and its rendered text as the one unsafe parameter,
\* named "message", and nothing in the safe parameters; a static message
\* becomes the Record's message and no parameter is added.
C25_NonStaticMessageIsUnsafe ==
    Forwarded =>
        LET args == bridged.foreign.args
            rec  == bridged.record
        IN /\ rec.safe_params = <<>>
           /\ ~args.static =>
                 /\ rec.message = ""
                 /\ rec.unsafe_params = <<<<"message", args.text>>>>
           /\ args.static =>
                 /\ rec.message = args.text
                 /\ rec.unsafe_params = <<>>

\* log::info!("foobar {}", 123) was forwarded.
C25_Witness ==
    /\ Forwarded
    /\ bridged.foreign.level = "Info"
    /\ ~bridged.foreign.args.static
    /\ bridged.foreign.args.text = "foobar 123"
    /\ bridged.record.message = ""
    /\ bridged.record.unsafe_params = <<<<"message", "foobar 123">>>>

-----------------------------------------------------------------------------
(* Service logs: the properties.                                           *)

\* The last entry of a parameter slice under the key, or Absent.
RECURSIVE LastUnder(_, _)
LastUnder(entries, key) ==
    IF entries = <<>> THEN Absent
    ELSE IF entries[Len(entries)][1] = key THEN entries[Len(entries)][2]
    ELSE LastUnder(SubSeq(entries, 1, Len(entries) - 1), key)

\* The field of the service log reserved for a sentinel key.
FieldOf(log, key) ==
    CASE key = UID_KEY -> log.uid
      [] key = SID_KEY -> log.sid
      [] key = TOKEN_ID_KEY -> log.tokenId
      [] key = ORG_ID_KEY -> log.orgId
      [] key = TRACE_ID_KEY -> log.traceId

C27_TypeIsService1 ==
    svcOut.called => svcOut.log.type = "service.1" /\ svcOut.log.safe = TRUE

\* C28: no MDC entry sits under a sentinel key: code cannot insert one
\* through insert_safe, insert_unsafe or Map::insert.
C28_SentinelKeysNotInsertable ==
    \A s \in SentinelKeys : svcMdc.safe[s] = Absent /\ svcMdc.unsafe_[s] = Absent

-----------------------------------------------------------------------------
(* MDC insertion: the properties.                                          *)

\* C29: an insertion (insert_safe, insert_unsafe, Map::insert) of a value
\* that cannot be serialized panics and leaves both MDC maps (and any other
\* map) exactly as they were before the call; any other insertion stores the
\* value and returns the one it replaced.
C29_UnserializableInsertPanics ==
    lastInsert # NoInsert =>
        IF lastInsert.value = Unserializable
        THEN /\ lastInsert.panicked
             /\ insMaps = lastInsert.before
        ELSE /\ ~lastInsert.panicked
             /\ insMaps = [lastInsert.before EXCEPT
                             ![lastInsert.target][lastInsert.key] = lastInsert.value]
             /\ lastInsert.old = lastInsert.before[lastInsert.target][lastInsert.key]

\* insert_safe("k", <unserializable>) panicked on an MDC that held entries in
\* both maps, under that key too; they are still there.
C29_Witness ==
    /\ lastInsert.target = "mdc.safe"
    /\ lastInsert.key = "k"
    /\ lastInsert.value = Unserializable
    /\ lastInsert.panicked
    /\ insMaps["mdc.safe"]["k"] = "v1"
    /\ insMaps["mdc.unsafe_"]["j"] = "v2"

-----------------------------------------------------------------------------
(* set and swap: the properties.                                           *)

\* C30: set(s) makes the thread's MDC equal to s and returns the MDC state
\* that was current before the call; swap(&mut s) exchanges the MDC with s,
\* so two swaps in a row with the same variable restore both.
C30_SetReturnsPrevious ==
    /\ lastSet.op = "set" =>
          /\ ssMdc = lastSet.sBefore
          /\ lastSet.ret = lastSet.mdcBefore
    /\ lastSet.op = "swap" =>
          /\ ssMdc = lastSet.sBefore
          /\ ssVar = lastSet.mdcBefore
          /\ lastSet.run = 2 => ssMdc = lastSet.mdcRun /\ ssVar = lastSet.sRun

\* swap was applied twice to an MDC and a Snapshot that differ in both maps;
\* both are back.
C30_Witness ==
    /\ lastSet.op = "swap"
    /\ lastSet.run = 2
    /\ ssMdc = [safe |-> [k \in Keys |-> "v1"], unsafe_ |-> EmptyMap]
    /\ ssVar = [safe |-> [k \in Keys |-> "v2"], unsafe_ |-> [k \in Keys |-> "v1"]]
    /\ lastSet.mdcBefore = ssVar
    /\ lastSet.mdcRun = ssMdc

-----------------------------------------------------------------------------
(* Meter: the properties.                                                  *)

\* The call of t has returned and its result is with the caller.
MeterReturned(t) == mpc[t] = "idle" /\ mframe[t].op # None

Rolls == meterLog.rolls

\* C31: of the callers of tick_if_necessary that saw the same last_tick and
\* an age of at least 5 seconds, one wins the compare-and-swap and rolls
\* over, the others return without touching the rates; so each 5-second
\* interval boundary is rolled over at most once: the roll-overs move
\* last_tick forward over boundaries no other roll-over covers.
C31_OneRollOverPerBoundary ==
    /\ \A i, j \in 1..Len(Rolls) : Rolls[i].old = Rolls[j].old => i = j
    /\ \A t \in MeterThreads : mframe[t].op # None => ~(mframe[t].won /\ mframe[t].lost)
    /\ \A i \in 1..Len(Rolls) : U64Lt(Rolls[i].old, Rolls[i].new)
    /\ \A i, j \in 1..Len(Rolls) : i < j => ~U64Lt(Rolls[j].old, Rolls[i].new)

\* C33: every read of a rate or of the count first calls
\* tick_if_necessary(now) and then reads from the locked state.
C33_ReadsTickFirst ==
    \A t \in MeterThreads :
        (MeterReturned(t) /\ mframe[t].result.tag \in {"count", "rate"}) => mframe[t].ticked

\* k calls of tick(0), one after the other.
RECURSIVE TickZeroTimes(_, _)
TickZeroTimes(e, k) == IF k = 0 THEN e ELSE TickZeroTimes(EwmaTick(e, 0), k - 1)

\* tick(u), then floor(a / 5) - 1 calls of tick(0).
TickedThrough(e, u, a) == TickZeroTimes(EwmaTick(e, u), a \div INTERVAL_SECS - 1)

\* C34: a roll-over with age a >= 5 s swaps uncounted to 0 as u, adds u to
\* count, and changes each rate as tick(u) followed by floor(a/5) - 1 calls of
\* tick(0) would; the first tick of a fresh Ewma sets the rate to u/5.
C34_RollOverTicksAndDecays ==
    [][\A t \in MeterThreads :
          /\ (mpc[t] = "roll" /\ mpc'[t] = "rolling") =>
                /\ mframe'[t].u = meter.uncounted
                /\ meter'.uncounted = 0
          /\ (mpc[t] = "rolling" /\ mpc'[t] # "rolling" /\ ~mframe[t].underflow) =>
                /\ mframe[t].age >= INTERVAL_SECS
                /\ meter'.state.count = meter.state.count + mframe[t].u
                /\ \A r \in {"rate_1m", "rate_5m", "rate_15m"} :
                      /\ meter'.state[r] = TickedThrough(meter.state[r], mframe[t].u, mframe[t].age)
                      /\ ~meter.state[r].initialized =>
                            meter'.state[r].rate =
                               PolyTimesD(PolyTrim(<<mframe[t].u>>),
                                          mframe[t].age \div INTERVAL_SECS - 1)
      ]_vars

\* mark 1 at t0 and mark 2 at t0 + 10 s: the count is 3 and the one-minute
\* rate is 0.2 * (1 - alpha), one fifth times d.
C34_Witness ==
    /\ meterLog.marked = 3
    /\ meterLog.calls = 2
    /\ Rolls = <<[old |-> 0, new |-> 10, at |-> 10]>>
    /\ meter.state.count = 1
    /\ meter.uncounted = 2
    /\ meter.state.rate_1m = [rate |-> <<0, 1>>, initialized |-> TRUE]
    /\ meter.state.rate_15m = meter.state.rate_1m

\* C35: count() is the sum of n over the completed mark(n) calls, under any
\* interleaving of marks, reads and roll-overs; a fresh meter reports count 0
\* and rate 0; a roll-over neither loses nor counts twice, and count() sees
\* no partial transfer.
C35_CountIsSumOfMarks ==
    /\ meter.holder = {} => meter.state.count + meter.uncounted = meterLog.marked
    /\ \A t \in MeterThreads :
          (MeterReturned(t) /\ mframe[t].result.tag = "count")
          => mframe[t].result.count = mframe[t].marked
    /\ meterLog.marked = 0 =>
          /\ \A r \in {"rate_1m", "rate_5m", "rate_15m"} : meter.state[r].rate = <<>>
          /\ \A t \in MeterThreads :
                (MeterReturned(t) /\ mframe[t].result.tag = "rate")
                => mframe[t].result.rate = <<>>

\* count() returned 3 after a roll-over had moved the first mark into
\* state.count and the second mark had been added to uncounted.
C35_Witness ==
    \E t \in MeterThreads :
        /\ MeterReturned(t)
        /\ mframe[t].result = [tag |-> "count", count |-> 3, rate |-> <<>>]
        /\ meter.state.count = 1
        /\ meter.uncounted = 2
        /\ Len(Rolls) = 1

\* C36: last_tick is always a multiple of 5 and never decreases; after every
\* roll-over it is the largest multiple of 5 not above the whole seconds the
\* rolling caller read.
C36_LastTickAligned ==
    /\ U64RemInterval(meter.last_tick) = 0
    /\ \A i \in 1..Len(Rolls) :
          /\ ~U64Lt(Rolls[i].new, Rolls[i].old)
          /\ Rolls[i].new = Rolls[i].at - (Rolls[i].at % INTERVAL_SECS)

\* C37: in tick_if_necessary the subtraction new_tick - last_tick never
\* underflows, in any interleaving of calls that read a monotonic clock
\* before they load last_tick.
C37_AgeNeverUnderflows ==
    \A t \in MeterThreads : mframe[t].op # None => ~mframe[t].underflow

-----------------------------------------------------------------------------
(* A factory that calls the registry: the properties.                      *)

\* C32: the factory of counter_with / meter_with / histogram_with /
\* timer_with runs without the registry's mutex held, so that a call of the
\* registry made from inside the factory finds the mutex free of its own
\* thread and completes: no thread runs its factory, or waits for the mutex in
\* a call made from its factory, while it holds the mutex itself.
C32_FactoryRunsUnlocked ==
    \A t \in RegThreads :
        /\ rpc[t] = "factory" => t \notin lockHolder
        /\ (outerCall[t] # RegIdleFrame /\ rpc[t] = "calling") => t \notin lockHolder

-----------------------------------------------------------------------------
(* Shared instruments: the properties.                                     *)

\* C38: a snapshot's isolation is shallow. The counter a snapshot has under an
\* id is the instance the callers hold who got it from the registry under that
\* id (registered since the id was last removed): what is read through the
\* snapshot is what is read through their handles, updates made after
\* metrics() included; and it stays so for a holder whose instrument has been
\* removed from the registry since.
C38_SnapshotSharesInstruments ==
    \A s \in Slots, id \in MetricIds :
        LET e == mapHeap[snapshots[s].ptr][id]
        IN (snapshots[s] # NoSnapshot /\ e # NoEntry) =>
              \A t \in RegThreads :
                  (/\ GetReturned(t) /\ rframe[t].result.tag = "ret" /\ rframe[t].id = id
                   /\ \/ ~rframe[t].removedSince /\ e = origEntry[id]
                      \/ rframe[t].removedSince /\ e = Entry(rframe[t].kind, rframe[t].result.inst))
                  => /\ rframe[t].result.inst = e.inst
                     /\ SnapshotCount(s, id) = HandleCount(t)

\* A thread holds a counter that a snapshot has too; one was added to it and
\* the snapshot reads the added value; the counter has been removed from the
\* registry, and the holder's handle still reads it.
C38_Witness ==
    \E s \in Slots, id \in MetricIds, t \in RegThreads :
        /\ snapshots[s] # NoSnapshot
        /\ snapshots[s].taken[id] # NoEntry
        /\ GetReturned(t) /\ rframe[t].result.tag = "ret" /\ rframe[t].id = id
        /\ rframe[t].removedSince
        /\ RegContent[id] = NoEntry
        /\ rframe[t].result.inst = snapshots[s].taken[id].inst
        /\ SnapshotCount(s, id) = 1
        /\ HandleCount(t) = 1

-----------------------------------------------------------------------------
(* The max level at start and try_init: the properties.                    *)

\* C39: until set_max_level is called for the first time the max level is
\* Off: no log! call site passes its guard, the sinks have received nothing,
\* and every enabled! that has returned gave false without asking the sink,
\* whether or not a logger is installed.
C39_OffUntilFirstSet ==
    ~envLog.maxSet =>
        /\ max_level = "Off"
        /\ RECORDS = <<>>
        /\ \A t \in Emitters :
              frame[t].op = "log" => frame[t].guard # "passed" /\ frame[t].handed = 0
        /\ \A t \in Sites :
              (frame[t].op = "enabled" /\ pc[t] = "returned")
              => frame[t].result = "false" /\ frame[t].asked = <<>>

\* A logger is installed, set_max_level has not been called, and a log! site
\* of level Fatal has returned without passing its guard.
C39_Witness ==
    /\ LOGGER.state = "complete"
    /\ ~envLog.maxSet
    /\ \E t \in Emitters :
          /\ pc[t] = "returned"
          /\ frame[t].op = "log"
          /\ frame[t].level = "Fatal"
          /\ frame[t].guard = "failed"
    /\ RECORDS = <<>>

\* C40: try_init stores its max level only when set_boxed_logger returned Ok;
\* a try_init that found a logger installed returns the SetLoggerError, and its
\* return changes neither the installed sink nor max_level().
C40_TryInitErrChangesNothing ==
    [][\A t \in InitCallers :
          (pc[t] = "returned" /\ pc'[t] = "idle") =>
              /\ frame[t].sawInstalled => envLog'.last.out = "Err"
              /\ envLog'.last.out = "Err" =>
                    /\ MAX_LOG_LEVEL_FILTER' = MAX_LOG_LEVEL_FILTER
                    /\ LOGGER' = LOGGER
                    /\ frame[t].sawInstalled => LOGGER' = frame[t].before
              /\ envLog'.last.out = "Ok" =>
                    /\ MAX_LOG_LEVEL_FILTER' = LevelFilterAsUsize(frame[t].max_level)
                    /\ LOGGER'.value = frame[t].arg]_vars

\* try_init found a logger installed and returned the error; the sink is the
\* one that was installed, and the max level is still another one than the
\* level try_init had computed.
C40_Witness ==
    /\ envLog.last.out = "Err"
    /\ envLog.last.sawInstalled
    /\ LOGGER.state = "complete"
    /\ LOGGER.value # EnvLogger
    /\ max_level = "Warn"
    /\ envLog.last.max_level = "Trace"
    /\ \A t \in InitCallers : pc[t] = "idle"

=============================================================================
